---- MODULE Spec2Model ----
(***************************************************************************)
(* Slot store, provisioning orchestrator and overlay visibility state of   *)
(* oto_desktop (src-tauri/src/main.rs), as a state machine.                *)
(*                                                                         *)
(* Option<T> is a sequence of length 0 (None) or 1 (Some(x)).  A path is a *)
(* sequence of file names relative to a slot's private models directory.   *)
(***************************************************************************)
EXTENDS Integers, Sequences, FiniteSets, TLC

VARIABLES
    slots_file,          \* .characters.json: [kind, slots]
    legacy_file,         \* .model_config.json: [kind, cfg]
    models,              \* models/<character_id>: [exists, files]
    overlay_visible,     \* AppState.overlay_visible: partial map id -> BOOLEAN
    active_character_id, \* AppState.active_character_id
    windows,             \* labels of the overlay webview windows that exist
    task,                \* per task: the operation it runs, its position, its locals
    prev_ready,          \* per slot: the result of the last successful ensure_ready
                         \* if nothing was written to the file system since
    nops                 \* provisioning and visibility operations started so far

vars == <<slots_file, legacy_file, models, overlay_visible, active_character_id,
          windows, task, prev_ready, nops>>

----------------------------------------------------------------------------
(* Bounds of the model *)

\* commands on the slot store and the models started in one behaviour
MaxOps == 2
\* all operations started in one behaviour
MaxVisOps == 3
\* entries of an arbitrary persisted slots file (SpecStore)
MaxFileLen == 3
\* concurrently running operations (SpecConc)
NumTasks == 2

----------------------------------------------------------------------------
(* Option *)

None == <<>>
Some(x) == <<x>>
IsSome(o) == Len(o) = 1
Unwrap(o) == o[1]

----------------------------------------------------------------------------
(* Constants of the program *)

CHARACTER_IDS == <<"character_1", "character_2", "character_3">>
PRIMARY_CHARACTER_ID == "character_1"
SLOT_1_MODEL_URL == "https://storage.googleapis.com/oto_bucket/live2d/Hiyori.zip"
SLOT_2_MODEL_URL == "https://storage.googleapis.com/oto_bucket/live2d/cat3.zip"
SLOT_3_MODEL_URL == "https://storage.googleapis.com/oto_bucket/live2d/steve.zip"
DEFAULT_MODEL_URL == "https://storage.googleapis.com/oto_bucket/live2d/Hiyori1.zip"

CharIds == {CHARACTER_IDS[i] : i \in 1..Len(CHARACTER_IDS)}

\* a slot id outside the fixed enumeration, and a user-supplied archive URL
UnknownId == "character_9"
UserUrl == "http://x/y.zip"
NotZipUrl == "http://x/y.txt"

\* str::trim().is_empty() and str::trim() on the URL strings of the model
IsBlank(u) == u \in {"", " "}
Trim(u) == IF u = " " THEN "" ELSE u
EndsWithZip(u) ==
    u \in {SLOT_1_MODEL_URL, SLOT_2_MODEL_URL, SLOT_3_MODEL_URL, DEFAULT_MODEL_URL, UserUrl}

slot_default_url(slot_id) ==
    CASE slot_id = "character_2" -> SLOT_2_MODEL_URL
      [] slot_id = "character_3" -> SLOT_3_MODEL_URL
      [] OTHER -> SLOT_1_MODEL_URL

\* a mutant of is_valid_character_id: every id is accepted
any_id_valid(character_id) == TRUE

is_valid_character_id(character_id) == character_id \in CharIds

\* ModelConfig::default()
ModelConfigDefault ==
    [url |-> DEFAULT_MODEL_URL,
     folder |-> <<"Hiyori">>,
     model_file |-> "Hiyori.model3.json",
     texture_folder |-> Some("Hiyori.2048")]

----------------------------------------------------------------------------
(* Slot store: pure part *)

\* CharacterSlotConfig::default_with_id
default_with_id(slot_id) ==
    [slot_id |-> slot_id,
     model_url |-> slot_default_url(slot_id),
     enabled |-> TRUE,
     folder |-> IF slot_id = PRIMARY_CHARACTER_ID
                THEN Some(ModelConfigDefault.folder) ELSE None,
     model_file |-> IF slot_id = PRIMARY_CHARACTER_ID
                    THEN Some(ModelConfigDefault.model_file) ELSE None,
     texture_folder |-> IF slot_id = PRIMARY_CHARACTER_ID
                        THEN ModelConfigDefault.texture_folder ELSE None]

\* slots.iter().position(|s| s.slot_id == slot_id): 0 when there is none
FindSlot(slots, slot_id) ==
    IF \E i \in 1..Len(slots) : slots[i].slot_id = slot_id
    THEN CHOOSE i \in 1..Len(slots) :
            /\ slots[i].slot_id = slot_id
            /\ \A j \in 1..(i - 1) : slots[j].slot_id # slot_id
    ELSE 0

\* a mutant of merge_character_slots: entries are kept as the caller gave them
merge_keep_input(slots) == slots

merge_character_slots(slots) ==
    [k \in 1..Len(CHARACTER_IDS) |->
        IF FindSlot(slots, CHARACTER_IDS[k]) # 0
        THEN slots[FindSlot(slots, CHARACTER_IDS[k])]
        ELSE default_with_id(CHARACTER_IDS[k])]

\* a mutant of apply_slot_url_defaults: the enabled flag is left as it was read
url_defaults_keeping_enabled(slots) ==
    [k \in 1..Len(slots) |->
        [slots[k] EXCEPT
            !.model_url = IF IsBlank(@) THEN slot_default_url(slots[k].slot_id) ELSE @]]

\* a mutant of apply_slot_url_defaults: a blank URL becomes the primary's default
url_defaults_of_primary(slots) ==
    [k \in 1..Len(slots) |->
        [slots[k] EXCEPT
            !.model_url = IF IsBlank(@) THEN slot_default_url(PRIMARY_CHARACTER_ID) ELSE @,
            !.enabled = TRUE]]

\* apply_slot_url_defaults
apply_slot_url_defaults(slots) ==
    [k \in 1..Len(slots) |->
        [slots[k] EXCEPT
            !.model_url = IF IsBlank(@) THEN slot_default_url(slots[k].slot_id) ELSE @,
            !.enabled = TRUE]]

\* a mutant of migrate_or_default_character_slots: the legacy file is not read
migrate_ignoring_legacy(legacy) ==
    apply_slot_url_defaults(merge_character_slots(<<>>))

\* migrate_or_default_character_slots
migrate_or_default_character_slots(legacy) ==
    LET slots == merge_character_slots(<<>>)
        migrated ==
            IF legacy.kind = "ok"
            THEN [k \in 1..Len(slots) |->
                    IF k = FindSlot(slots, PRIMARY_CHARACTER_ID)
                    THEN [slots[k] EXCEPT
                            !.model_url = legacy.cfg.url,
                            !.enabled = TRUE,
                            !.folder = Some(legacy.cfg.folder),
                            !.model_file = Some(legacy.cfg.model_file),
                            !.texture_folder = legacy.cfg.texture_folder]
                    ELSE slots[k]]
            ELSE slots
    IN apply_slot_url_defaults(migrated)

\* The contents of a file
Missing == [kind |-> "missing", slots |-> <<>>]
Malformed == [kind |-> "malformed", slots |-> <<>>]
FileOf(slots) == [kind |-> "ok", slots |-> slots]

\* a mutant of save_character_slots: the caller's list is written as it is
save_without_merge(file, slots) ==
    {[ok |-> TRUE, file |-> FileOf(slots)],
     [ok |-> FALSE, file |-> file],
     [ok |-> FALSE, file |-> Malformed]}

\* save_character_slots: the outcomes of writing `slots` over `file`.  A write
\* that fails leaves the file as it was (the directory or the file could not be
\* created) or cut short (std::fs::write truncates before it writes).
save_character_slots(file, slots) ==
    {[ok |-> TRUE, file |-> FileOf(merge_character_slots(slots))],
     [ok |-> FALSE, file |-> file],
     [ok |-> FALSE, file |-> Malformed]}

\* a mutant of load_character_slots: a file that does not parse is treated as a
\* file that is not there
load_falling_back(file, legacy) ==
    LET loaded == IF file.kind = "ok"
                  THEN apply_slot_url_defaults(merge_character_slots(file.slots))
                  ELSE migrate_or_default_character_slots(legacy)
    IN {[ok |-> w.ok, slots |-> IF w.ok THEN loaded ELSE <<>>, file |-> w.file] :
           w \in save_character_slots(file, loaded)}

\* a mutant of load_character_slots: without a slots file the migrated list is
\* returned and the defaults are written
load_writing_defaults(file, legacy) ==
    IF file.kind = "malformed"
    THEN {[ok |-> FALSE, slots |-> <<>>, file |-> file]}
    ELSE LET loaded == IF file.kind = "ok"
                       THEN apply_slot_url_defaults(merge_character_slots(file.slots))
                       ELSE migrate_or_default_character_slots(legacy)
             written == IF file.kind = "ok" THEN loaded
                        ELSE apply_slot_url_defaults(merge_character_slots(<<>>))
         IN {[ok |-> w.ok, slots |-> IF w.ok THEN loaded ELSE <<>>, file |-> w.file] :
                w \in save_character_slots(file, written)}

\* load_character_slots: the outcomes [ok, slots, file] of a load
load_character_slots(file, legacy) ==
    IF file.kind = "malformed"
    THEN {[ok |-> FALSE, slots |-> <<>>, file |-> file]}
    ELSE LET loaded == IF file.kind = "ok"
                       THEN apply_slot_url_defaults(merge_character_slots(file.slots))
                       ELSE migrate_or_default_character_slots(legacy)
         IN {[ok |-> w.ok, slots |-> IF w.ok THEN loaded ELSE <<>>, file |-> w.file] :
                w \in save_character_slots(file, loaded)}

----------------------------------------------------------------------------
(* File names.  A name is a string; what the code asks of a name (its suffix, *)
(* the name with the suffix cut) is tabulated for the names of the model.     *)

\* name -> name.trim_end_matches(".model3.json"), for the names ending in it
Model3Stem ==
    ("Hiyori.model3.json" :> "Hiyori") @@ ("foo.model3.json" :> "foo")
       @@ ("bar.model3.json" :> "bar")

\* name.ends_with(".model3.json")
IsDescriptorName(name) == name \in DOMAIN Model3Stem
\* name.ends_with(".2048") || ends_with(".4096") || ends_with(".1024") || name == "textures"
IsTextureName(name) == name \in {"Hiyori.2048", "foo.4096", "bar.1024", "textures"}
\* name.ends_with(".png")
IsPngName(name) == name \in {"texture_00.png", "icon.png"}

----------------------------------------------------------------------------
(* A directory is the sequence of its entries in directory-iteration order;  *)
(* an entry is [name, dir, kids], kids being the entries of a directory.     *)

FileEntry(name) == [name |-> name, dir |-> FALSE, kids |-> <<>>]
DirEntry(name, kids) == [name |-> name, dir |-> TRUE, kids |-> kids]

\* index of the entry called `name` in directory `d`, 0 when there is none
EntryIndex(d, name) ==
    IF \E i \in 1..Len(d) : d[i].name = name
    THEN CHOOSE i \in 1..Len(d) : d[i].name = name
    ELSE 0

\* index of the first entry of `d` among those at the indices in `S`, 0 if none
FirstIn(S) == IF S = {} THEN 0 ELSE CHOOSE i \in S : \A j \in S : i <= j

RECURSIVE PathExists(_, _)
\* Path::exists of a relative path under directory d
PathExists(d, path) ==
    IF path = <<>> THEN TRUE
    ELSE LET i == EntryIndex(d, Head(path))
         IN IF i = 0 THEN FALSE
            ELSE IF Len(path) = 1 THEN TRUE
            ELSE d[i].dir /\ PathExists(d[i].kids, Tail(path))

RECURSIVE PutEntry(_, _, _)
\* std::fs::create_dir_all(parent) then the entry itself at `path`:
\* a directory (isdir) or a created file.  [ok, d]
PutEntry(d, path, isdir) ==
    LET i == EntryIndex(d, Head(path))
    IN IF Len(path) = 1
       THEN IF i = 0
            THEN [ok |-> TRUE,
                  d |-> Append(d, IF isdir THEN DirEntry(Head(path), <<>>)
                                  ELSE FileEntry(Head(path)))]
            ELSE [ok |-> d[i].dir = isdir, d |-> d]
       ELSE IF i = 0
            THEN LET sub == PutEntry(<<>>, Tail(path), isdir)
                 IN [ok |-> sub.ok, d |-> Append(d, DirEntry(Head(path), sub.d))]
            ELSE IF ~d[i].dir THEN [ok |-> FALSE, d |-> d]
            ELSE LET sub == PutEntry(d[i].kids, Tail(path), isdir)
                 IN [ok |-> sub.ok, d |-> [d EXCEPT ![i].kids = sub.d]]

RECURSIVE DirAt(_, _)
\* the entries of the directory at `path` under d (path names directories)
DirAt(d, path) ==
    IF path = <<>> THEN d
    ELSE DirAt(d[EntryIndex(d, Head(path))].kids, Tail(path))

\* An archive is the sequence of its entries [path, dir]; dir is
\* file.name().ends_with('/')
ZipFile(path) == [path |-> path, dir |-> FALSE]
ZipDir(path) == [path |-> path, dir |-> TRUE]

RECURSIVE ExtractEntries(_, _, _)
\* the loop of download_and_extract_zip over the first n entries.  [ok, d]
ExtractEntries(d, archive, n) ==
    IF n = 0 THEN [ok |-> TRUE, d |-> d]
    ELSE LET before == ExtractEntries(d, archive, n - 1)
         IN IF ~before.ok THEN before
            ELSE PutEntry(before.d, archive[n].path, archive[n].dir)


----------------------------------------------------------------------------
(* Structure normalizer *)

MAX_MODEL_SEARCH_DEPTH == 3

\* indices of the entries of d that are descriptor files
DescriptorFiles(d) == {i \in 1..Len(d) : ~d[i].dir /\ IsDescriptorName(d[i].name)}

RECURSIVE find_model_file_subdirs_first(_, _, _)
\* a mutant of find_model_file_recursive: the subdirectories are searched before
\* the files of the directory itself
find_model_file_subdirs_first(d, dir, max_depth) ==
    IF max_depth = 0 THEN None
    ELSE LET hits == {i \in 1..Len(d) :
                        /\ d[i].dir
                        /\ IsSome(find_model_file_subdirs_first(
                              d[i].kids, Append(dir, d[i].name), max_depth - 1))}
         IN IF hits # {}
            THEN find_model_file_subdirs_first(d[FirstIn(hits)].kids,
                     Append(dir, d[FirstIn(hits)].name), max_depth - 1)
            ELSE IF DescriptorFiles(d) # {}
            THEN Some([dir |-> dir, name |-> d[FirstIn(DescriptorFiles(d))].name])
            ELSE None

RECURSIVE find_model_file_recursive(_, _, _)
\* Option<(directory path, file name)> for the directory `d` at path `dir`
find_model_file_recursive(d, dir, max_depth) ==
    IF max_depth = 0 THEN None
    ELSE IF DescriptorFiles(d) # {}
         THEN Some([dir |-> dir, name |-> d[FirstIn(DescriptorFiles(d))].name])
         ELSE LET hits == {i \in 1..Len(d) :
                             /\ d[i].dir
                             /\ IsSome(find_model_file_recursive(
                                   d[i].kids, Append(dir, d[i].name), max_depth - 1))}
              IN IF hits = {} THEN None
                 ELSE find_model_file_recursive(d[FirstIn(hits)].kids,
                          Append(dir, d[FirstIn(hits)].name), max_depth - 1)

\* find_texture_folder: Option<name> among the entries of the model directory
find_texture_folder(d) ==
    LET named == {i \in 1..Len(d) : d[i].dir /\ IsTextureName(d[i].name)}
        withPng == {i \in 1..Len(d) :
                      d[i].dir /\ \E j \in 1..Len(d[i].kids) : IsPngName(d[i].kids[j].name)}
    IN IF named # {} THEN Some(d[FirstIn(named)].name)
       ELSE IF withPng # {} THEN Some(d[FirstIn(withPng)].name)
       ELSE None

RECURSIVE MoveInto(_, _, _)
\* the rename loop of reorganize_flat_model over the first n entries of `d`:
\* `into` is the new folder's content so far.  rename replaces a file of the same
\* name and fails on a directory in the way.  [ok, d, left], left being the
\* entries that were not moved
MoveInto(d, into, n) ==
    IF n = 0 THEN [ok |-> TRUE, d |-> into, left |-> <<>>]
    ELSE LET before == MoveInto(d, into, n - 1)
             i == EntryIndex(before.d, d[n].name)
         IN IF ~before.ok THEN [before EXCEPT !.left = Append(@, d[n])]
            ELSE IF i = 0 THEN [before EXCEPT !.d = Append(@, d[n])]
            ELSE IF before.d[i].dir \/ d[n].dir
                 THEN [before EXCEPT !.ok = FALSE, !.left = <<d[n]>>]
            ELSE [before EXCEPT !.d[i] = d[n]]

\* the entries of d but the one called `name`, in order
Without(d, name) == SelectSeq(d, LAMBDA e : e.name # name)

\* a mutant of reorganize_flat_model: only the descriptor is moved
reorganize_descriptor_only(d, model_filename) ==
    LET model_name == Model3Stem[model_filename]
        i == EntryIndex(d, model_name)
        rest == Without(Without(d, model_name), model_filename)
    IN [ok |-> i = 0 \/ d[i].dir,
        d |-> rest \o <<DirEntry(model_name,
                          (IF i = 0 THEN <<>> ELSE d[i].kids)
                             \o <<FileEntry(model_filename)>>)>>,
        model_name |-> model_name]

\* reorganize_flat_model: [ok, d, model_name]
reorganize_flat_model(d, model_filename) ==
    LET model_name == Model3Stem[model_filename]
        i == EntryIndex(d, model_name)
        rest == Without(d, model_name)
        moved == MoveInto(rest, IF i = 0 THEN <<>> ELSE d[i].kids, Len(rest))
    IN IF i # 0 /\ ~d[i].dir
       THEN [ok |-> FALSE, d |-> d, model_name |-> model_name]
       ELSE [ok |-> moved.ok,
             d |-> moved.left \o <<DirEntry(model_name, moved.d)>>,
             model_name |-> model_name]

\* detect_model_structure on the directory d: [ok, d, folder, model_file,
\* texture_folder]; d is the directory afterwards.  NoModelFound is its Err
NoModelFound(d) ==
    [ok |-> FALSE, d |-> d, folder |-> <<>>, model_file |-> "", texture_folder |-> None]

detect_model_structure(d) ==
    IF DescriptorFiles(d) # {}
    THEN LET name == d[FirstIn(DescriptorFiles(d))].name
             r == reorganize_flat_model(d, name)
         IN IF ~r.ok THEN NoModelFound(r.d)
            ELSE [ok |-> TRUE, d |-> r.d, folder |-> <<r.model_name>>,
                  model_file |-> name,
                  texture_folder |-> find_texture_folder(DirAt(r.d, <<r.model_name>>))]
    ELSE LET hits == {i \in 1..Len(d) :
                        /\ d[i].dir
                        /\ IsSome(find_model_file_recursive(
                              d[i].kids, <<d[i].name>>, MAX_MODEL_SEARCH_DEPTH))}
         IN IF hits = {} THEN NoModelFound(d)
            ELSE LET found == Unwrap(find_model_file_recursive(d[FirstIn(hits)].kids,
                                  <<d[FirstIn(hits)].name>>, MAX_MODEL_SEARCH_DEPTH))
                 IN [ok |-> TRUE, d |-> d, folder |-> found.dir,
                     model_file |-> found.name,
                     texture_folder |-> find_texture_folder(DirAt(d, found.dir))]


----------------------------------------------------------------------------
(* Tasks.  Every triggered operation runs as one task; a task's record holds *)
(* the operation, its position in the code (pc), its arguments and locals,   *)
(* and what the call has done so far.                                        *)

TaskIds == 1..NumTasks

IdleTask ==
    [op |-> "none", pc |-> "idle",
     cid |-> "", url |-> "", en |-> FALSE, arg |-> <<>>,   \* arguments
     slots |-> <<>>,                                       \* loaded slot list
     model_url |-> "", archive |-> <<>>, config |-> None,  \* ensure_ready's locals
     i |-> 0, after |-> "",
     result |-> "none", err |-> "",                        \* Ok / Err of the call
     ret_slots |-> <<>>, ret_config |-> None,              \* the value returned
     pre_file |-> Missing,                \* the slots file when the call began
     pre_visible |-> <<>>,                \* overlay_visible when the call began
     pre_active |-> "",
     prev |-> None,                       \* prev_ready of the slot when it began
     last_err |-> "",                     \* the error of the call before, if it was
                                          \* ensure_ready of the same slot and failed
     fetched |-> 0, wiped |-> FALSE]      \* network fetches, wipes of the call

\* a task can take a new operation
Free(t) == task[t].pc \in {"idle", "done"}

\* the record of a task that begins operation `op`
Begin(op, cid, url, en, arg, pc) ==
    [IdleTask EXCEPT !.op = op, !.pc = pc, !.cid = cid, !.url = url, !.en = en,
                     !.arg = arg]

\* ... that keeps what the state was when it began
Remember(r) ==
    [r EXCEPT !.pre_file = slots_file,
              !.pre_visible = overlay_visible,
              !.pre_active = active_character_id,
              !.prev = IF r.cid \in CharIds THEN prev_ready[r.cid] ELSE None]

\* the call of task t returns Err(err) / Ok
Fail(r, err) == [r EXCEPT !.pc = "done", !.result = "err", !.err = err]
Succeed(r) == [r EXCEPT !.pc = "done", !.result = "ok"]

NoneReady == [c \in CharIds |-> None]

\* prev_ready after a step: forgotten once the file system changed
KeepReady ==
    prev_ready' = IF <<slots_file', legacy_file', models'>> = <<slots_file, legacy_file, models>>
                  THEN prev_ready ELSE NoneReady

\* one more operation is started, while the bound allows
Count == nops < MaxOps /\ nops' = nops + 1
CountVis == nops < MaxVisOps /\ nops' = nops + 1

VisUnchanged == UNCHANGED <<overlay_visible, active_character_id, windows>>
FsUnchanged == UNCHANGED <<slots_file, legacy_file, models>>

----------------------------------------------------------------------------
(* Slot store operations *)

\* get_character_slots
StartGetSlots(t) ==
    /\ Free(t)
    /\ task' = [task EXCEPT ![t] =
                    Remember(Begin("get_slots", "", "", FALSE, <<>>, "gs_load"))]
    /\ UNCHANGED nops
    /\ FsUnchanged /\ VisUnchanged /\ UNCHANGED prev_ready

GetSlotsLoad(t) ==
    /\ task[t].pc = "gs_load"
    /\ \E r \in load_character_slots(slots_file, legacy_file) :
          /\ slots_file' = r.file
          /\ task' = [task EXCEPT ![t] =
                        IF r.ok THEN Succeed([@ EXCEPT !.ret_slots = r.slots])
                        ELSE Fail(@, "load")]
    /\ UNCHANGED <<legacy_file, models, nops>>
    /\ VisUnchanged /\ KeepReady

\* a direct call of save_character_slots(slots) with the caller's list
StartSave(t, slots) ==
    /\ Free(t)
    /\ task' = [task EXCEPT ![t] = Begin("save", "", "", FALSE, slots, "sv_save")]
    /\ UNCHANGED nops
    /\ FsUnchanged /\ VisUnchanged /\ UNCHANGED prev_ready

SaveWrite(t) ==
    /\ task[t].pc = "sv_save"
    /\ \E w \in save_character_slots(slots_file, task[t].arg) :
          /\ slots_file' = w.file
          /\ task' = [task EXCEPT ![t] = IF w.ok THEN Succeed(@) ELSE Fail(@, "save")]
    /\ UNCHANGED <<legacy_file, models, nops>>
    /\ VisUnchanged /\ KeepReady

----------------------------------------------------------------------------
(* The network and the models directories *)

ArchiveNested ==
    <<ZipDir(<<"Hiyori">>),
      ZipFile(<<"Hiyori", "Hiyori.model3.json">>),
      ZipFile(<<"Hiyori", "Hiyori.2048", "texture_00.png">>)>>
ArchiveFlat ==
    <<ZipFile(<<"foo.model3.json">>), ZipFile(<<"textures", "texture_00.png">>)>>
ArchiveNoModel == <<ZipFile(<<"icon.png">>)>>

\* what a GET that succeeds may deliver: the bytes of an archive, or bytes that
\* are no archive (zip::ZipArchive::new fails)
NotAnArchive == <<[path |-> <<>>, dir |-> FALSE]>>
Payloads == {ArchiveNested, ArchiveFlat, ArchiveNoModel, NotAnArchive}

\* get_models_dir_for_character(c).exists(), and the directory's entries
EmptyDir == [exists |-> TRUE, d |-> <<>>]
NoDir == [exists |-> FALSE, d |-> <<>>]

\* remove_dir_all then create_dir_all of a models directory: [ok, dir].  A removal
\* that fails has removed nothing or has emptied the directory it could not remove;
\* a creation that fails leaves no directory
WipeOutcomes(dir) ==
    {[ok |-> TRUE, dir |-> EmptyDir], [ok |-> FALSE, dir |-> NoDir]}
    \cup (IF dir.exists
          THEN {[ok |-> FALSE, dir |-> dir], [ok |-> FALSE, dir |-> EmptyDir]}
          ELSE {})

\* the loop of download_and_extract_zip: it ends after all entries, or fails at an
\* entry with the entries before it, and possibly the file it was writing, on disk
ExtractOutcomes(d, archive) ==
    {[ok |-> n = Len(archive) /\ e.ok /\ ok, d |-> e.d] :
        <<n, e, ok>> \in {<<n, ExtractEntries(d, archive, n), ok>> :
                             n \in 0..Len(archive), ok \in BOOLEAN}}

\* the ModelConfig of a slot record whose folder and model_file are set
ConfigOf(url, folder, model_file, texture_folder) ==
    [url |-> url, folder |-> folder, model_file |-> model_file,
     texture_folder |-> texture_folder]

\* writing the legacy file .model_config.json: [ok, legacy]
WriteLegacy(legacy, config) ==
    {[ok |-> TRUE, legacy |-> [kind |-> "ok", cfg |-> config]],
     [ok |-> FALSE, legacy |-> legacy],
     [ok |-> FALSE, legacy |-> [legacy EXCEPT !.kind = "malformed"]]}

\* a mutant of WithConfig: the folder is recorded without the descriptor
with_folder_only(slots, character_id, config) ==
    [k \in 1..Len(slots) |->
        IF k = FindSlot(slots, character_id)
        THEN [slots[k] EXCEPT !.model_url = config.url,
                              !.enabled = TRUE,
                              !.folder = Some(config.folder),
                              !.model_file = None,
                              !.texture_folder = config.texture_folder]
        ELSE slots[k]]

\* the slot list with the record of character_id set from config
WithConfig(slots, character_id, config) ==
    [k \in 1..Len(slots) |->
        IF k = FindSlot(slots, character_id)
        THEN [slots[k] EXCEPT !.model_url = config.url,
                              !.enabled = TRUE,
                              !.folder = Some(config.folder),
                              !.model_file = Some(config.model_file),
                              !.texture_folder = config.texture_folder]
        ELSE slots[k]]

\* save_model_config_for_character: [ok, file, legacy]
save_model_config_for_character(file, legacy, character_id, config) ==
    UNION {IF ~l.ok THEN {[ok |-> FALSE, file |-> l.file, legacy |-> legacy]}
           ELSE UNION {IF ~w.ok \/ character_id # PRIMARY_CHARACTER_ID
                       THEN {[ok |-> w.ok, file |-> w.file, legacy |-> legacy]}
                       ELSE {[ok |-> g.ok, file |-> w.file, legacy |-> g.legacy] :
                                g \in WriteLegacy(legacy, config)} :
                       w \in save_character_slots(l.file,
                                WithConfig(l.slots, character_id, config))} :
           l \in load_character_slots(file, legacy)}

----------------------------------------------------------------------------
(* ensure_model_ready_for_character, called by get_model_config_for_character, *)
(* init_app, change_model_for_character and spawn_or_focus_next_character      *)

\* the call of ensure_model_ready_for_character returns Ok(config) to its caller
Ready(r, config) ==
    [r EXCEPT !.ret_config = Some(config),
              !.pc = IF r.after = "" THEN "done" ELSE r.after,
              !.result = IF r.after = "" THEN "ok" ELSE r.result]

\* prev_ready after a step in which ensure_ready(cid) returned Ok(config)
NoteReady(cid, config) ==
    prev_ready' = [c \in CharIds |->
                     IF c = cid THEN Some(config)
                     ELSE IF <<slots_file', legacy_file', models'>>
                                = <<slots_file, legacy_file, models>>
                          THEN prev_ready[c] ELSE None]

\* get_model_config_for_character(character_id)
StartEnsure(t, cid) ==
    /\ Free(t)
    /\ task' = [task EXCEPT ![t] =
                  IF is_valid_character_id(cid)
                  THEN [Remember(Begin("ensure", cid, "", FALSE, <<>>, "er_load"))
                           EXCEPT !.last_err =
                              IF task[t].op = "ensure" /\ task[t].cid = cid
                                 /\ task[t].result = "err"
                              THEN task[t].err ELSE ""]
                  ELSE Fail(Remember(Begin("ensure", cid, "", FALSE, <<>>, "")), "invalid")]
    /\ Count
    /\ FsUnchanged /\ VisUnchanged /\ UNCHANGED prev_ready

\* load the slots, find the slot, resolve its URL
EnsureLoad(t) ==
    /\ task[t].pc = "er_load"
    /\ \E r \in load_character_slots(slots_file, legacy_file) :
          /\ slots_file' = r.file
          /\ task' = [task EXCEPT ![t] =
                IF ~r.ok THEN Fail(@, "load")
                ELSE IF FindSlot(r.slots, @.cid) = 0 THEN Fail(@, "no slot")
                ELSE LET slot == r.slots[FindSlot(r.slots, @.cid)]
                     IN IF ~IsBlank(slot.model_url)
                        THEN [@ EXCEPT !.slots = r.slots, !.pc = "er_check",
                                       !.model_url = slot.model_url]
                        ELSE IF @.cid = PRIMARY_CHARACTER_ID
                        THEN [@ EXCEPT !.slots = r.slots, !.pc = "er_check",
                                       !.model_url = DEFAULT_MODEL_URL]
                        ELSE Fail(@, "no url")]
    /\ UNCHANGED <<legacy_file, models, nops>>
    /\ VisUnchanged /\ KeepReady

\* a mutant of has_configured_model: the recorded model is never found on disk
never_configured(slot, dir) == FALSE

\* has_configured_model
has_configured_model(slot, dir) ==
    /\ IsSome(slot.folder) /\ IsSome(slot.model_file)
    /\ dir.exists
    /\ PathExists(dir.d, Append(Unwrap(slot.folder), Unwrap(slot.model_file)))

\* the fast path: the recorded model is on disk
EnsureCheck(t) ==
    /\ task[t].pc = "er_check"
    /\ LET slot == task[t].slots[FindSlot(task[t].slots, task[t].cid)]
           config == ConfigOf(task[t].model_url, Unwrap(slot.folder),
                              Unwrap(slot.model_file), slot.texture_folder)
       IN IF has_configured_model(slot, models[task[t].cid])
          THEN /\ task' = [task EXCEPT ![t] = Ready(@, config)]
               /\ FsUnchanged
               /\ NoteReady(task[t].cid, config)
          ELSE /\ task' = [task EXCEPT ![t].pc = "er_wipe"]
               /\ FsUnchanged
               /\ UNCHANGED prev_ready
    /\ UNCHANGED nops
    /\ VisUnchanged

\* a mutant of EnsureWipe: the directory is created when it is missing, and
\* not cleared
EnsureWipe_keeping(t) ==
    /\ task[t].pc = "er_wipe"
    /\ models' = [models EXCEPT ![task[t].cid] = [exists |-> TRUE, d |-> @.d]]
    /\ task' = [task EXCEPT ![t] = [@ EXCEPT !.pc = "er_download", !.wiped = TRUE]]
    /\ UNCHANGED <<slots_file, legacy_file, nops>>
    /\ VisUnchanged /\ KeepReady

\* the slow path: clear and recreate the models directory
EnsureWipe(t) ==
    /\ task[t].pc = "er_wipe"
    /\ \E w \in WipeOutcomes(models[task[t].cid]) :
          /\ models' = [models EXCEPT ![task[t].cid] = w.dir]
          /\ task' = [task EXCEPT ![t] =
                        IF w.ok THEN [@ EXCEPT !.pc = "er_download", !.wiped = TRUE]
                        ELSE Fail([@ EXCEPT !.wiped = TRUE], "clear")]
    /\ UNCHANGED <<slots_file, legacy_file, nops>>
    /\ VisUnchanged /\ KeepReady

\* reqwest::get(url) and response.bytes()
EnsureDownload(t) ==
    /\ task[t].pc = "er_download"
    /\ \/ task' = [task EXCEPT ![t] = Fail([@ EXCEPT !.fetched = @ + 1], "download")]
       \/ \E bytes \in Payloads :
             task' = [task EXCEPT ![t] = [@ EXCEPT !.fetched = @ + 1, !.archive = bytes,
                                                   !.pc = "er_extract"]]
    /\ FsUnchanged /\ VisUnchanged
    /\ UNCHANGED <<prev_ready, nops>>

\* create_dir_all(dest_dir), ZipArchive::new, the extraction loop
EnsureExtract(t) ==
    /\ task[t].pc = "er_extract"
    /\ LET cid == task[t].cid IN
       IF task[t].archive = NotAnArchive
       THEN /\ models' = [models EXCEPT ![cid] = [exists |-> TRUE, d |-> @.d]]
            /\ task' = [task EXCEPT ![t] = Fail(@, "zip")]
       ELSE \E e \in ExtractOutcomes(models[cid].d, task[t].archive) :
               /\ models' = [models EXCEPT ![cid] = [exists |-> TRUE, d |-> e.d]]
               /\ task' = [task EXCEPT ![t] =
                             IF e.ok THEN [@ EXCEPT !.pc = "er_detect"]
                             ELSE Fail(@, "extract")]
    /\ UNCHANGED <<slots_file, legacy_file, nops>>
    /\ VisUnchanged /\ KeepReady

\* a mutant of EnsureDetect: the slot's asset fields are cleared in the slots file
\* when no model is found
EnsureDetect_clearing(t) ==
    /\ task[t].pc = "er_detect"
    /\ LET cid == task[t].cid
           r == detect_model_structure(models[cid].d)
           k == FindSlot(task[t].slots, cid)
       IN /\ models' = [models EXCEPT ![cid].d = r.d]
          /\ slots_file' =
                IF r.ok THEN slots_file
                ELSE FileOf([task[t].slots EXCEPT ![k] =
                                [@ EXCEPT !.folder = None, !.model_file = None,
                                          !.texture_folder = None]])
          /\ task' = [task EXCEPT ![t] =
                IF r.ok
                THEN [@ EXCEPT !.pc = "er_save",
                               !.config = Some(ConfigOf(task[t].model_url, r.folder,
                                                  r.model_file, r.texture_folder))]
                ELSE Fail(@, "no model")]
    /\ UNCHANGED <<legacy_file, nops>>
    /\ VisUnchanged /\ KeepReady

\* detect_model_structure(&models_dir)
EnsureDetect(t) ==
    /\ task[t].pc = "er_detect"
    /\ LET cid == task[t].cid
           r == detect_model_structure(models[cid].d)
       IN /\ models' = [models EXCEPT ![cid].d = r.d]
          /\ task' = [task EXCEPT ![t] =
                IF r.ok
                THEN [@ EXCEPT !.pc = "er_save",
                               !.config = Some(ConfigOf(task[t].model_url, r.folder,
                                                  r.model_file, r.texture_folder))]
                ELSE Fail(@, "no model")]
    /\ UNCHANGED <<slots_file, legacy_file, nops>>
    /\ VisUnchanged /\ KeepReady

\* a mutant of EnsureSave: the record is updated in the list the file holds now
EnsureSave_rereading(t) ==
    /\ task[t].pc = "er_save"
    /\ LET cid == task[t].cid
           config == Unwrap(task[t].config)
           current == IF slots_file.kind = "ok"
                      THEN merge_character_slots(slots_file.slots)
                      ELSE task[t].slots
       IN \E w \in save_character_slots(slots_file, WithConfig(current, cid, config)) :
             /\ slots_file' = w.file
             /\ task' = [task EXCEPT ![t] =
                   IF ~w.ok THEN Fail(@, "save")
                   ELSE IF cid = PRIMARY_CHARACTER_ID THEN [@ EXCEPT !.pc = "er_legacy"]
                   ELSE Ready(@, config)]
             /\ UNCHANGED <<legacy_file, models, nops>>
             /\ VisUnchanged
             /\ IF w.ok /\ cid # PRIMARY_CHARACTER_ID
                THEN NoteReady(cid, config) ELSE KeepReady

\* the slot record is updated in the list loaded at the start, and the list saved
EnsureSave(t) ==
    /\ task[t].pc = "er_save"
    /\ LET cid == task[t].cid
           config == Unwrap(task[t].config)
       IN \E w \in save_character_slots(slots_file,
                        WithConfig(task[t].slots, cid, config)) :
             /\ slots_file' = w.file
             /\ task' = [task EXCEPT ![t] =
                   IF ~w.ok THEN Fail(@, "save")
                   ELSE IF cid = PRIMARY_CHARACTER_ID THEN [@ EXCEPT !.pc = "er_legacy"]
                   ELSE Ready(@, config)]
             /\ UNCHANGED <<legacy_file, models, nops>>
             /\ VisUnchanged
             /\ IF w.ok /\ cid # PRIMARY_CHARACTER_ID
                THEN NoteReady(cid, config) ELSE KeepReady

\* save_model_config(&config), for the primary character
EnsureLegacy(t) ==
    /\ task[t].pc = "er_legacy"
    /\ LET config == Unwrap(task[t].config)
       IN \E g \in save_model_config_for_character(slots_file, legacy_file,
                        PRIMARY_CHARACTER_ID, config) :
             /\ slots_file' = g.file
             /\ legacy_file' = g.legacy
             /\ task' = [task EXCEPT ![t] =
                           IF g.ok THEN Ready(@, config) ELSE Fail(@, "save config")]
             /\ UNCHANGED <<models, nops>>
             /\ VisUnchanged
             /\ IF g.ok THEN NoteReady(PRIMARY_CHARACTER_ID, config) ELSE KeepReady

----------------------------------------------------------------------------
(* Overlay visibility.  Every lock().unwrap() of AppState.overlay_visible or  *)
(* AppState.active_character_id is one step: the lock is released at the end  *)
(* of the statement that took it.                                             *)

\* HashMap::insert
Insert(map, key, value) ==
    [k \in DOMAIN map \cup {key} |-> IF k = key THEN value ELSE map[k]]

\* get_overlay_visible_for_character: *map.get(id).unwrap_or(&false)
get_overlay_visible_for_character(map, character_id) ==
    IF character_id \in DOMAIN map THEN map[character_id] ELSE FALSE

\* get_active_character_id_from_app
get_active_character_id_from_app(active) ==
    IF active = "" THEN PRIMARY_CHARACTER_ID ELSE active

\* a mutant of OtherIds: only one other overlay is hidden
one_other_id(character_id) ==
    IF character_id = PRIMARY_CHARACTER_ID THEN <<"character_2">>
    ELSE <<PRIMARY_CHARACTER_ID>>

\* the ids show_overlay_for_character hides, in the order of its loop
OtherIds(character_id) == SelectSeq(CHARACTER_IDS, LAMBDA id : id # character_id)

\* the operations that run show_overlay_for_character_sync
IsSync(r) == r.op \in {"show_sync", "hotkey"}

\* a direct call of show_overlay_for_character (show_overlay for the primary)
StartShow(t, cid) ==
    /\ Free(t)
    /\ task' = [task EXCEPT ![t] =
                  [Remember(Begin("show", cid, "", FALSE, <<>>, "sh_hide")) EXCEPT !.i = 1]]
    /\ CountVis
    /\ FsUnchanged /\ VisUnchanged /\ UNCHANGED prev_ready

\* a direct call of show_overlay_for_character_sync
StartShowSync(t, cid) ==
    /\ Free(t)
    /\ task' = [task EXCEPT ![t] =
                  IF is_valid_character_id(cid)
                  THEN [Remember(Begin("show_sync", cid, "", FALSE, <<>>, "sh_hide"))
                            EXCEPT !.i = 1]
                  ELSE Fail(Remember(Begin("show_sync", cid, "", FALSE, <<>>, "")),
                            "invalid")]
    /\ CountVis
    /\ FsUnchanged /\ VisUnchanged /\ UNCHANGED prev_ready

\* a mutant of ShowHideOther: the other windows are hidden, their flags are left
ShowHideOther_window_only(t) ==
    /\ task[t].pc = "sh_hide"
    /\ LET others == OtherIds(task[t].cid)
           i == task[t].i
       IN /\ overlay_visible' = overlay_visible
          /\ task' = [task EXCEPT ![t] =
                        IF i = Len(others) THEN [@ EXCEPT !.pc = "sh_window", !.i = 0]
                        ELSE [@ EXCEPT !.i = i + 1]]
    /\ UNCHANGED <<active_character_id, windows, prev_ready, nops>>
    /\ FsUnchanged

\* the loop "hide all other character overlays first", one other id per step
ShowHideOther(t) ==
    /\ task[t].pc = "sh_hide"
    /\ LET others == OtherIds(task[t].cid)
           i == task[t].i
       IN /\ overlay_visible' = Insert(overlay_visible, others[i], FALSE)
          /\ task' = [task EXCEPT ![t] =
                        IF i = Len(others) THEN [@ EXCEPT !.pc = "sh_window", !.i = 0]
                        ELSE [@ EXCEPT !.i = i + 1]]
    /\ UNCHANGED <<active_character_id, windows, prev_ready, nops>>
    /\ FsUnchanged

\* a mutant of ShowWindow: the slot is marked visible before its window is
\* created, configured and shown
ShowWindow_marking_first(t) ==
    /\ task[t].pc = "sh_window"
    /\ overlay_visible' = Insert(overlay_visible, task[t].cid, TRUE)
    /\ \/ /\ windows' = windows \cup {task[t].cid}
          /\ task' = [task EXCEPT ![t].pc = "sh_visible"]
       \/ /\ task[t].cid \notin windows
          /\ windows' = windows
          /\ task' = [task EXCEPT ![t] = Fail(@, "create window")]
       \/ /\ windows' = windows \cup {task[t].cid}
          /\ task' = [task EXCEPT ![t] = Fail(@, "configure")]
       \/ /\ ~IsSync(task[t])
          /\ windows' = windows \cup {task[t].cid}
          /\ task' = [task EXCEPT ![t] = Fail(@, "show")]
    /\ UNCHANGED <<active_character_id, prev_ready, nops>>
    /\ FsUnchanged

\* ensure_overlay_window, configure_overlay, window.show(), window.set_focus():
\* the window is there and shown, or one of the calls failed
ShowWindow(t) ==
    /\ task[t].pc = "sh_window"
    /\ \/ /\ windows' = windows \cup {task[t].cid}
          /\ task' = [task EXCEPT ![t].pc = "sh_visible"]
       \/ /\ task[t].cid \notin windows
          /\ windows' = windows
          /\ task' = [task EXCEPT ![t] = Fail(@, "create window")]
       \/ /\ windows' = windows \cup {task[t].cid}
          /\ task' = [task EXCEPT ![t] = Fail(@, "configure")]
       \/ /\ ~IsSync(task[t])
          /\ windows' = windows \cup {task[t].cid}
          /\ task' = [task EXCEPT ![t] = Fail(@, "show")]
    /\ UNCHANGED <<overlay_visible, active_character_id, prev_ready, nops>>
    /\ FsUnchanged

ShowSetVisible(t) ==
    /\ task[t].pc = "sh_visible"
    /\ overlay_visible' = Insert(overlay_visible, task[t].cid, TRUE)
    /\ task' = [task EXCEPT ![t].pc = "sh_active"]
    /\ UNCHANGED <<active_character_id, windows, prev_ready, nops>>
    /\ FsUnchanged

ShowSetActive(t) ==
    /\ task[t].pc = "sh_active"
    /\ active_character_id' = task[t].cid
    /\ task' = [task EXCEPT ![t] = Succeed(@)]
    /\ UNCHANGED <<overlay_visible, windows, prev_ready, nops>>
    /\ FsUnchanged

\* hide_overlay_for_character_cmd(character_id) (hide_overlay for the primary)
StartHide(t, cid) ==
    /\ Free(t)
    /\ task' = [task EXCEPT ![t] =
                  IF is_valid_character_id(cid)
                  THEN Remember(Begin("hide", cid, "", FALSE, <<>>, "hd_hide"))
                  ELSE Fail(Remember(Begin("hide", cid, "", FALSE, <<>>, "")), "invalid")]
    /\ CountVis
    /\ FsUnchanged /\ VisUnchanged /\ UNCHANGED prev_ready

\* hide_overlay_for_character: window.hide()?, then the flag
HideOverlay(t) ==
    /\ task[t].pc = "hd_hide"
    /\ \/ /\ overlay_visible' = Insert(overlay_visible, task[t].cid, FALSE)
          /\ task' = [task EXCEPT ![t] = Succeed(@)]
       \/ /\ task[t].cid \in windows
          /\ overlay_visible' = overlay_visible
          /\ task' = [task EXCEPT ![t] = Fail(@, "hide")]
    /\ UNCHANGED <<active_character_id, windows, prev_ready, nops>>
    /\ FsUnchanged

\* toggle_overlay (the command)
StartToggle(t) ==
    /\ Free(t)
    /\ task' = [task EXCEPT ![t] =
                  Remember(Begin("toggle", PRIMARY_CHARACTER_ID, "", FALSE, <<>>, "tg_read"))]
    /\ CountVis
    /\ FsUnchanged /\ VisUnchanged /\ UNCHANGED prev_ready

ToggleRead(t) ==
    /\ task[t].pc = "tg_read"
    /\ task' = [task EXCEPT ![t] =
                  IF get_overlay_visible_for_character(overlay_visible, PRIMARY_CHARACTER_ID)
                  THEN [@ EXCEPT !.pc = "hd_hide"]
                  ELSE [@ EXCEPT !.pc = "sh_hide", !.i = 1]]
    /\ UNCHANGED <<prev_ready, nops>>
    /\ FsUnchanged /\ VisUnchanged

\* toggle_overlay_sync (tray menu item "toggle", left click on the tray icon)
StartTray(t) ==
    /\ Free(t)
    /\ task' = [task EXCEPT ![t] =
                  Remember(Begin("tray", PRIMARY_CHARACTER_ID, "", FALSE, <<>>, "ty_read"))]
    /\ CountVis
    /\ FsUnchanged /\ VisUnchanged /\ UNCHANGED prev_ready

TrayRead(t) ==
    /\ task[t].pc = "ty_read"
    /\ task' = [task EXCEPT ![t] =
                  [@ EXCEPT !.pc = "ty_set",
                            !.en = get_overlay_visible_for_character(
                                       overlay_visible, PRIMARY_CHARACTER_ID)]]
    /\ UNCHANGED <<prev_ready, nops>>
    /\ FsUnchanged /\ VisUnchanged

\* the branch of toggle_overlay_sync taken on is_visible (kept in en)
TraySet(t) ==
    /\ task[t].pc = "ty_set"
    /\ IF task[t].en
       THEN /\ overlay_visible' =
                  IF PRIMARY_CHARACTER_ID \in windows
                  THEN Insert(overlay_visible, PRIMARY_CHARACTER_ID, FALSE)
                  ELSE overlay_visible
            /\ windows' = windows
       ELSE \/ /\ windows' = windows \cup {PRIMARY_CHARACTER_ID}
               /\ overlay_visible' = Insert(overlay_visible, PRIMARY_CHARACTER_ID, TRUE)
            \/ /\ PRIMARY_CHARACTER_ID \notin windows
               /\ UNCHANGED <<windows, overlay_visible>>
    /\ task' = [task EXCEPT ![t] = Succeed(@)]
    /\ UNCHANGED <<active_character_id, prev_ready, nops>>
    /\ FsUnchanged

\* the global shortcut handler on Alt+Space (Super+Space) pressed
StartHotkey(t) ==
    /\ Free(t)
    /\ task' = [task EXCEPT ![t] = Remember(Begin("hotkey", "", "", FALSE, <<>>, "hk_active"))]
    /\ CountVis
    /\ FsUnchanged /\ VisUnchanged /\ UNCHANGED prev_ready

HotkeyActive(t) ==
    /\ task[t].pc = "hk_active"
    /\ task' = [task EXCEPT ![t] =
                  [@ EXCEPT !.pc = "hk_read",
                            !.cid = get_active_character_id_from_app(active_character_id)]]
    /\ UNCHANGED <<prev_ready, nops>>
    /\ FsUnchanged /\ VisUnchanged

HotkeyRead(t) ==
    /\ task[t].pc = "hk_read"
    /\ task' = [task EXCEPT ![t] =
                  IF get_overlay_visible_for_character(overlay_visible, @.cid)
                  THEN Succeed(@)
                  ELSE IF is_valid_character_id(@.cid)
                  THEN [@ EXCEPT !.pc = "sh_hide", !.i = 1]
                  ELSE Fail(@, "invalid")]
    /\ UNCHANGED <<prev_ready, nops>>
    /\ FsUnchanged /\ VisUnchanged

\* reload_character_for_character(character_id)
StartReload(t, cid) ==
    /\ Free(t)
    /\ task' = [task EXCEPT ![t] =
                  IF is_valid_character_id(cid)
                  THEN Remember(Begin("reload", cid, "", FALSE, <<>>, "rl_close"))
                  ELSE Fail(Remember(Begin("reload", cid, "", FALSE, <<>>, "")), "invalid")]
    /\ CountVis
    /\ FsUnchanged /\ VisUnchanged /\ UNCHANGED prev_ready

ReloadClose(t) ==
    /\ task[t].pc = "rl_close"
    /\ \/ /\ windows' = windows \ {task[t].cid}
          /\ task' = [task EXCEPT ![t] = [@ EXCEPT !.pc = "sh_hide", !.i = 1]]
       \/ /\ task[t].cid \in windows
          /\ windows' = windows
          /\ task' = [task EXCEPT ![t] = Fail(@, "close")]
    /\ UNCHANGED <<overlay_visible, active_character_id, prev_ready, nops>>
    /\ FsUnchanged

\* set_active_character_id(character_id)
StartSetActive(t, cid) ==
    /\ Free(t)
    /\ task' = [task EXCEPT ![t] =
                  IF is_valid_character_id(cid)
                  THEN Remember(Begin("set_active", cid, "", FALSE, <<>>, "sa_set"))
                  ELSE Fail(Remember(Begin("set_active", cid, "", FALSE, <<>>, "")),
                            "invalid")]
    /\ CountVis
    /\ FsUnchanged /\ VisUnchanged /\ UNCHANGED prev_ready

SetActive(t) ==
    /\ task[t].pc = "sa_set"
    /\ active_character_id' = task[t].cid
    /\ task' = [task EXCEPT ![t] = Succeed(@)]
    /\ UNCHANGED <<overlay_visible, windows, prev_ready, nops>>
    /\ FsUnchanged

----------------------------------------------------------------------------
(* Commands that edit a slot *)

\* a mutant of StartSaveSlot: an enabled slot without a URL is not rejected
StartSaveSlot_unchecked(t, slot_id, model_url, enabled) ==
    /\ Free(t)
    /\ task' = [task EXCEPT ![t] =
          LET r == Remember(Begin("save_slot", slot_id, model_url, enabled, <<>>, "ss_load"))
          IN IF ~is_valid_character_id(slot_id) THEN Fail(r, "invalid")
             ELSE IF ~IsBlank(model_url) /\ ~EndsWithZip(Trim(model_url))
             THEN Fail(r, "not a zip")
             ELSE r]
    /\ Count
    /\ FsUnchanged /\ VisUnchanged /\ UNCHANGED prev_ready

\* save_character_slot(slot_id, model_url, enabled)
StartSaveSlot(t, slot_id, model_url, enabled) ==
    /\ Free(t)
    /\ task' = [task EXCEPT ![t] =
          LET r == Remember(Begin("save_slot", slot_id, model_url, enabled, <<>>, "ss_load"))
          IN IF ~is_valid_character_id(slot_id) THEN Fail(r, "invalid")
             ELSE IF enabled /\ IsBlank(model_url) THEN Fail(r, "enabled without url")
             ELSE IF ~IsBlank(model_url) /\ ~EndsWithZip(Trim(model_url))
             THEN Fail(r, "not a zip")
             ELSE r]
    /\ Count
    /\ FsUnchanged /\ VisUnchanged /\ UNCHANGED prev_ready

SaveSlotLoad(t) ==
    /\ task[t].pc = "ss_load"
    /\ \E r \in load_character_slots(slots_file, legacy_file) :
          /\ slots_file' = r.file
          /\ task' = [task EXCEPT ![t] =
                        IF r.ok THEN [@ EXCEPT !.slots = r.slots, !.pc = "ss_save"]
                        ELSE Fail(@, "load")]
    /\ UNCHANGED <<legacy_file, models, nops>>
    /\ VisUnchanged /\ KeepReady

\* a mutant of EditedSlot: the enabled input is stored for the primary slot too
edited_as_given(slot, model_url, enabled) ==
    LET s == [slot EXCEPT !.model_url = Trim(model_url), !.enabled = enabled]
    IN IF enabled THEN s
       ELSE [s EXCEPT !.folder = None, !.model_file = None, !.texture_folder = None]

\* a mutant of EditedSlot: a slot that is disabled keeps its asset fields
edited_keeping_assets(slot, model_url, enabled) ==
    LET en == IF slot.slot_id = PRIMARY_CHARACTER_ID THEN TRUE ELSE enabled
    IN [slot EXCEPT !.model_url = Trim(model_url), !.enabled = en]

\* the record of save_character_slot's slot after its assignments
EditedSlot(slot, model_url, enabled) ==
    LET en == IF slot.slot_id = PRIMARY_CHARACTER_ID THEN TRUE ELSE enabled
        s == [slot EXCEPT !.model_url = Trim(model_url), !.enabled = en]
    IN IF en THEN s
       ELSE [s EXCEPT !.folder = None, !.model_file = None, !.texture_folder = None]

SaveSlotWrite(t) ==
    /\ task[t].pc = "ss_save"
    /\ LET slots == task[t].slots
           k == FindSlot(slots, task[t].cid)
           edited == IF k = 0 THEN slots
                     ELSE [slots EXCEPT ![k] = EditedSlot(@, task[t].url, task[t].en)]
       IN \E w \in save_character_slots(slots_file, edited) :
             /\ slots_file' = w.file
             /\ task' = [task EXCEPT ![t] = IF w.ok THEN Succeed(@) ELSE Fail(@, "save")]
    /\ UNCHANGED <<legacy_file, models, nops>>
    /\ VisUnchanged /\ KeepReady

\* a mutant of StartChangeModel: the URL's extension is not checked
StartChangeModel_unchecked(t, character_id, url) ==
    /\ Free(t)
    /\ task' = [task EXCEPT ![t] =
          LET r == Remember(Begin("change_model", character_id, url, FALSE, <<>>, "cm_load"))
          IN IF ~is_valid_character_id(character_id) THEN Fail(r, "invalid")
             ELSE r]
    /\ Count
    /\ FsUnchanged /\ VisUnchanged /\ UNCHANGED prev_ready

\* change_model_for_character(character_id, url)
StartChangeModel(t, character_id, url) ==
    /\ Free(t)
    /\ task' = [task EXCEPT ![t] =
          LET r == Remember(Begin("change_model", character_id, url, FALSE, <<>>, "cm_load"))
          IN IF ~is_valid_character_id(character_id) THEN Fail(r, "invalid")
             ELSE IF ~EndsWithZip(url) THEN Fail(r, "not a zip")
             ELSE r]
    /\ Count
    /\ FsUnchanged /\ VisUnchanged /\ UNCHANGED prev_ready

ChangeModelLoad(t) ==
    /\ task[t].pc = "cm_load"
    /\ \E r \in load_character_slots(slots_file, legacy_file) :
          /\ slots_file' = r.file
          /\ task' = [task EXCEPT ![t] =
                        IF ~r.ok THEN Fail(@, "load")
                        ELSE IF FindSlot(r.slots, @.cid) = 0 THEN Fail(@, "no slot")
                        ELSE [@ EXCEPT !.slots = r.slots, !.pc = "cm_save"]]
    /\ UNCHANGED <<legacy_file, models, nops>>
    /\ VisUnchanged /\ KeepReady

\* the new URL is stored with the assets cleared, then ensure_ready runs
ChangeModelWrite(t) ==
    /\ task[t].pc = "cm_save"
    /\ LET slots == task[t].slots
           k == FindSlot(slots, task[t].cid)
           edited == [slots EXCEPT ![k] =
                        [@ EXCEPT !.model_url = task[t].url, !.enabled = TRUE,
                                  !.folder = None, !.model_file = None,
                                  !.texture_folder = None]]
       IN \E w \in save_character_slots(slots_file, edited) :
             /\ slots_file' = w.file
             /\ task' = [task EXCEPT ![t] =
                           IF w.ok THEN [@ EXCEPT !.pc = "er_load", !.slots = <<>>]
                           ELSE Fail(@, "save")]
    /\ UNCHANGED <<legacy_file, models, nops>>
    /\ VisUnchanged /\ KeepReady

----------------------------------------------------------------------------
(* spawn_or_focus_next_character: the F12 shortcut spawns one task per press *)

\* the ids of the slots that are enabled and have a URL, in slot order
EnabledIds(slots) ==
    LET on == SelectSeq(slots, LAMBDA s : s.enabled /\ ~IsBlank(s.model_url))
    IN [k \in 1..Len(on) |-> on[k].slot_id]

\* the "UX fallback" of spawn_or_focus_next_character: the slot list it goes on
\* with and whether it has to be saved
AutoProvision(slots) ==
    LET enabled == EnabledIds(slots)
        p == FindSlot(slots, PRIMARY_CHARACTER_ID)
        k == FindSlot(slots, "character_2")
        primary_url == IF p = 0 THEN DEFAULT_MODEL_URL ELSE Trim(slots[p].model_url)
    IN IF /\ Len(enabled) = 1 /\ enabled[1] = PRIMARY_CHARACTER_ID
          /\ k # 0
          /\ (~slots[k].enabled \/ IsBlank(slots[k].model_url))
       THEN [save |-> TRUE,
             slots |-> [slots EXCEPT ![k] =
                          [@ EXCEPT !.enabled = TRUE,
                                    !.model_url = IF primary_url = ""
                                                  THEN DEFAULT_MODEL_URL ELSE primary_url,
                                    !.folder = None, !.model_file = None,
                                    !.texture_folder = None]]]
       ELSE [save |-> FALSE, slots |-> slots]

StartCycle(t) ==
    /\ Free(t)
    /\ task' = [task EXCEPT ![t] = Remember(Begin("cycle", "", "", FALSE, <<>>, "cy_load"))]
    /\ Count
    /\ FsUnchanged /\ VisUnchanged /\ UNCHANGED prev_ready

\* load the slots, auto-provision character_2, list the enabled ids (kept in arg)
CycleLoad(t) ==
    /\ task[t].pc = "cy_load"
    /\ \E r \in load_character_slots(slots_file, legacy_file) :
          IF ~r.ok
          THEN /\ slots_file' = r.file
               /\ task' = [task EXCEPT ![t] = Fail(@, "load")]
          ELSE LET auto == AutoProvision(r.slots)
                   enabled == EnabledIds(auto.slots)
                   next == IF enabled = <<>> THEN Fail(task[t], "no enabled slot")
                           ELSE [task[t] EXCEPT !.arg = enabled, !.pc = "cy_active"]
               IN IF auto.save
                  THEN \E w \in save_character_slots(r.file, auto.slots) :
                          /\ slots_file' = w.file
                          /\ task' = [task EXCEPT ![t] =
                                        IF w.ok THEN next ELSE Fail(@, "save")]
                  ELSE /\ slots_file' = r.file
                       /\ task' = [task EXCEPT ![t] = next]
    /\ UNCHANGED <<legacy_file, models, nops>>
    /\ VisUnchanged /\ KeepReady

\* index of id in ordered, 0 when it is not there
Position(ordered, id) == FirstIn({k \in 1..Len(ordered) : ordered[k] = id})

\* a mutant of NextId: the last id of the list is followed by itself
next_without_wrap(ordered, active) ==
    IF Len(ordered) = 1 THEN ordered[1]
    ELSE LET idx == IF Position(ordered, active) = 0 THEN 0
                    ELSE Position(ordered, active) - 1
         IN ordered[IF idx + 1 < Len(ordered) THEN idx + 2 ELSE Len(ordered)]

\* the id after `active` in `ordered`, wrapping (indices from 1)
NextId(ordered, active) ==
    IF Len(ordered) = 1 THEN ordered[1]
    ELSE LET idx == IF Position(ordered, active) = 0 THEN 0
                    ELSE Position(ordered, active) - 1
         IN ordered[((idx + 1) % Len(ordered)) + 1]

\* a mutant of CycleActive: the next id is shown without ensure_ready
CycleActive_showing_first(t) ==
    /\ task[t].pc = "cy_active"
    /\ LET active == get_active_character_id_from_app(active_character_id)
           next_id == NextId(task[t].arg, active)
       IN task' = [task EXCEPT ![t] =
                     IF is_valid_character_id(next_id)
                     THEN [@ EXCEPT !.cid = next_id, !.pc = "sh_hide", !.i = 1]
                     ELSE Fail([@ EXCEPT !.cid = next_id], "invalid")]
    /\ UNCHANGED <<prev_ready, nops>>
    /\ FsUnchanged /\ VisUnchanged

\* read the active id, choose the next id, go on to ensure_ready and show
CycleActive(t) ==
    /\ task[t].pc = "cy_active"
    /\ LET active == get_active_character_id_from_app(active_character_id)
           next_id == NextId(task[t].arg, active)
       IN task' = [task EXCEPT ![t] =
                     IF is_valid_character_id(next_id)
                     THEN [@ EXCEPT !.cid = next_id, !.pc = "er_load",
                                    !.after = "sh_hide", !.i = 1,
                                    !.prev = prev_ready[next_id]]
                     ELSE Fail([@ EXCEPT !.cid = next_id], "invalid")]
    /\ UNCHANGED <<prev_ready, nops>>
    /\ FsUnchanged /\ VisUnchanged

----------------------------------------------------------------------------
(* The slot store alone, on an arbitrary well-formed slots file *)

\* the entries a persisted file or a caller's list is made of
StoreIds == CharIds \cup {UnknownId}
StoreEntries ==
    {[slot_id |-> id, model_url |-> "", enabled |-> FALSE,
      folder |-> None, model_file |-> None, texture_folder |-> None] :
        id \in {"character_1", "character_2"}}
    \cup
    {[slot_id |-> id, model_url |-> UserUrl, enabled |-> TRUE,
      folder |-> Some(<<"foo">>), model_file |-> Some("foo.model3.json"),
      texture_folder |-> Some("textures")] : id \in StoreIds}

SeqsUpTo(S, n) == UNION {[1..k -> S] : k \in 0..n}

\* the lists a caller hands to save_character_slots
CallerEntries == {e \in StoreEntries : e.enabled /\ e.slot_id # "character_3"}
CallerLists == SeqsUpTo(CallerEntries, MaxFileLen - 1)

LegacyConfig ==
    [url |-> UserUrl, folder |-> <<"bar">>, model_file |-> "bar.model3.json",
     texture_folder |-> None]
LegacyFiles ==
    {[kind |-> "missing", cfg |-> LegacyConfig],
     [kind |-> "malformed", cfg |-> LegacyConfig],
     [kind |-> "ok", cfg |-> LegacyConfig]}

NoModels == [c \in CharIds |-> NoDir]

StartState ==
    /\ overlay_visible = (PRIMARY_CHARACTER_ID :> FALSE)
    /\ active_character_id = PRIMARY_CHARACTER_ID
    /\ windows = {}
    /\ task = [t \in TaskIds |-> IdleTask]
    /\ prev_ready = NoneReady
    /\ nops = 0

InitStore ==
    /\ slots_file \in {Missing} \cup {FileOf(f) : f \in SeqsUpTo(StoreEntries, MaxFileLen)}
    /\ legacy_file \in IF slots_file = Missing THEN LegacyFiles
                       ELSE {[kind |-> "missing", cfg |-> LegacyConfig]}
    /\ models = NoModels
    /\ StartState

NextStore ==
    \/ StartGetSlots(1)
    \/ \E slots \in CallerLists : StartSave(1, slots)
    \/ GetSlotsLoad(1)
    \/ SaveWrite(1)

SpecStore == InitStore /\ [][NextStore]_vars


----------------------------------------------------------------------------
(* Provisioning: the commands that load, edit and provision slots, one call   *)
(* at a time, from the state the setup hook leaves on a first run.            *)

\* the slots file after the setup hook's load_character_slots() on an
\* installation without a slots file: written, or not (the result is ignored)
SetupFiles ==
    UNION {{<<r.file, legacy>> : r \in load_character_slots(Missing, legacy)} :
              legacy \in LegacyFiles}

\* the arguments the commands are called with
SlotArgs == {"character_1", "character_2", UnknownId}
UrlArgs == {"", UserUrl, NotZipUrl}

Init ==
    /\ \E f \in SetupFiles : slots_file = f[1] /\ legacy_file = f[2]
    /\ models = NoModels
    /\ StartState

Next ==
    \/ \E cid \in StoreIds : StartEnsure(1, cid)
    \/ \E cid \in SlotArgs, url \in UrlArgs, en \in BOOLEAN : StartSaveSlot(1, cid, url, en)
    \/ \E cid \in SlotArgs, url \in UrlArgs : StartChangeModel(1, cid, url)
    \/ EnsureLoad(1)
    \/ EnsureCheck(1)
    \/ EnsureWipe(1)
    \/ EnsureDownload(1)
    \/ EnsureExtract(1)
    \/ EnsureDetect(1)
    \/ EnsureSave(1)
    \/ EnsureLegacy(1)
    \/ SaveSlotLoad(1)
    \/ SaveSlotWrite(1)
    \/ ChangeModelLoad(1)
    \/ ChangeModelWrite(1)

Spec == Init /\ [][Next]_vars

----------------------------------------------------------------------------
(* Claims about the slot store *)

\* exactly the fixed identifiers, in the fixed order
IsFixedList(slots) ==
    /\ Len(slots) = Len(CHARACTER_IDS)
    /\ \A k \in 1..Len(CHARACTER_IDS) : slots[k].slot_id = CHARACTER_IDS[k]

\* C5: merge totality.  Whatever entries a well-formed slots file holds (a
\* subset of the identifiers, none, duplicates, unknown identifiers), a load
\* that succeeds returns exactly three records, character_1, character_2,
\* character_3, in that order.
C5_MergeTotality ==
    \A t \in TaskIds :
        (task[t].op = "get_slots" /\ task[t].result = "ok")
            => IsFixedList(task[t].ret_slots)

\* a load that succeeded on a file holding an unknown identifier and a duplicate
C5_Witness ==
    \E t \in TaskIds :
        /\ task[t].op = "get_slots" /\ task[t].result = "ok"
        /\ task[t].pre_file.kind = "ok"
        /\ Len(task[t].pre_file.slots) = 3
        /\ task[t].pre_file.slots[1].slot_id = UnknownId
        /\ task[t].pre_file.slots[2].slot_id = "character_3"
        /\ task[t].pre_file.slots[3].slot_id = "character_3"

\* C6: persisted-list invariant.  When a load or a save has succeeded, the slots
\* file on disk holds exactly one entry per fixed identifier, in the fixed order,
\* also when the caller's list was partial or empty and when the file that was
\* loaded was partially populated.
C6_PersistedList ==
    \A t \in TaskIds :
        (task[t].op \in {"get_slots", "save"} /\ task[t].result = "ok")
            => slots_file.kind = "ok" /\ IsFixedList(slots_file.slots)

\* a save of the empty list that succeeded
C6_Witness ==
    \E t \in TaskIds :
        /\ task[t].op = "save" /\ task[t].result = "ok"
        /\ task[t].arg = <<>>
        /\ slots_file.kind = "ok"

----------------------------------------------------------------------------
(* Claims about provisioning *)

\* the errors of the slow path before the slot record is written
SlowErrors == {"clear", "download", "zip", "extract", "no model"}

\* C7: idempotent provisioning.  When ensure_ready(id) has succeeded and nothing
\* in the file system has changed since, a second ensure_ready(id) fetches
\* nothing from the network, does not wipe the slot's private root, never leaves
\* the fast path, and what it returns is the first call's result (url, folder,
\* model_file, texture_folder).  The one way it can fail is its load of the slots
\* file, which rewrites the file and fails when that write fails.
C7_Idempotent ==
    \A t \in TaskIds :
        (task[t].op = "ensure" /\ IsSome(task[t].prev))
            => /\ task[t].fetched = 0
               /\ ~task[t].wiped
               /\ task[t].pc \in {"er_load", "er_check", "done"}
               /\ task[t].result = "ok" => task[t].ret_config = task[t].prev
               /\ task[t].result = "err" => task[t].err = "load"

\* a second ensure_ready(character_2) that returned the model its predecessor
\* had downloaded and reorganized from a flat archive
C7_Witness ==
    \E t \in TaskIds :
        /\ task[t].op = "ensure" /\ task[t].cid = "character_2"
        /\ IsSome(task[t].prev)
        /\ task[t].result = "ok"
        /\ task[t].ret_config = task[t].prev
        /\ Unwrap(task[t].ret_config).folder = <<"foo">>

\* what load_character_slots reads from the files as they are
AsLoaded(file, legacy) ==
    IF file.kind = "ok" THEN merge_character_slots(file.slots)
    ELSE migrate_or_default_character_slots(legacy)

AssetFields(slots) ==
    [k \in 1..Len(slots) |->
        <<slots[k].slot_id, slots[k].folder, slots[k].model_file,
          slots[k].texture_folder>>]

\* C8: when ensure_ready(id) fails in its slow path (clearing or creating the
\* directory, the download, the archive, the extraction, no descriptor found),
\* folder, model_file and texture_folder of every slot in the slots file are what
\* they were when the call began.
C8_AssetsKept ==
    \A t \in TaskIds :
        (task[t].op = "ensure" /\ task[t].result = "err" /\ task[t].err \in SlowErrors)
            => /\ slots_file.kind = "ok"
               /\ AssetFields(slots_file.slots)
                    = AssetFields(AsLoaded(task[t].pre_file, legacy_file))

\* ensure_ready(character_1) that found no descriptor in what it extracted, the
\* primary slot's record still naming the default model
C8_Witness ==
    \E t \in TaskIds :
        /\ task[t].op = "ensure" /\ task[t].cid = PRIMARY_CHARACTER_ID
        /\ task[t].result = "err" /\ task[t].err = "no model"
        /\ slots_file.kind = "ok"
        /\ slots_file.slots[1].folder = Some(<<"Hiyori">>)

\* C9: a failed ensure_ready(id) leaves enabled and model_url of every slot in
\* the slots file equal to what the file held before the call, whatever the file
\* held (a slot stored disabled, a slot stored with a blank URL).
C9_EnablementKept ==
    \A t \in TaskIds :
        (/\ task[t].op = "ensure" /\ task[t].result = "err"
         /\ task[t].pre_file.kind = "ok" /\ slots_file.kind = "ok")
            => \A id \in CharIds :
                  LET before == task[t].pre_file.slots
                      now == slots_file.slots
                  IN (FindSlot(before, id) # 0 /\ FindSlot(now, id) # 0)
                        => /\ now[FindSlot(now, id)].enabled
                                = before[FindSlot(before, id)].enabled
                           /\ now[FindSlot(now, id)].model_url
                                = before[FindSlot(before, id)].model_url

\* C10: after ensure_ready(id) failed in its slow path or at its final persist,
\* the next ensure_ready(id) does not return by the fast path: it returns Ok
\* only after it has cleared and refilled the directory.
C10_SlowPathAgain ==
    \A t \in TaskIds :
        (/\ task[t].op = "ensure"
         /\ task[t].last_err \in SlowErrors \cup {"save", "save config"}
         /\ task[t].result = "ok")
            => task[t].wiped

----------------------------------------------------------------------------
(* Overlay visibility, one operation at a time *)

\* the installation after a first run: default slots, no model downloaded
FreshFiles ==
    /\ slots_file = FileOf(migrate_or_default_character_slots(
                              [kind |-> "missing", cfg |-> LegacyConfig]))
    /\ legacy_file = [kind |-> "missing", cfg |-> LegacyConfig]
    /\ models = NoModels

InitVis == FreshFiles /\ StartState

\* show(id) alone, in its two variants
NextShow ==
    \/ \E cid \in CharIds : StartShow(1, cid)
    \/ \E cid \in StoreIds : StartShowSync(1, cid)
    \/ ShowHideOther(1)
    \/ ShowWindow(1)
    \/ ShowSetVisible(1)
    \/ ShowSetActive(1)

SpecShow == InitVis /\ [][NextShow]_vars

\* the slots marked visible
VisibleSet == {c \in DOMAIN overlay_visible : overlay_visible[c]}

\* C1: single-visible invariant for show.  From the initial state, where every
\* slot is hidden, in every state of any sequence of show(id) calls run one
\* after the other (show_overlay_for_character, show_overlay_for_character_sync,
\* over the three slot ids), at most one slot is marked visible.
C1_ShowSingleVisible == Cardinality(VisibleSet) <= 1

\* show(character_3) returned Ok in a state where character_2 had been visible
C1_Witness ==
    \E t \in TaskIds :
        /\ task[t].op \in {"show", "show_sync"} /\ task[t].cid = "character_3"
        /\ task[t].result = "ok"
        /\ get_overlay_visible_for_character(task[t].pre_visible, "character_2")
        /\ VisibleSet = {"character_3"}

\* every visibility operation, one at a time
NextVis ==
    \/ \E cid \in CharIds : StartShow(1, cid)
    \/ \E cid \in StoreIds : StartShowSync(1, cid)
    \/ \E cid \in StoreIds : StartHide(1, cid)
    \/ \E cid \in StoreIds : StartReload(1, cid)
    \/ StartToggle(1)
    \/ StartTray(1)
    \/ StartHotkey(1)
    \/ StartCycle(1)
    \/ ShowHideOther(1)
    \/ ShowWindow(1)
    \/ ShowSetVisible(1)
    \/ ShowSetActive(1)
    \/ HideOverlay(1)
    \/ ReloadClose(1)
    \/ ToggleRead(1)
    \/ TrayRead(1)
    \/ TraySet(1)
    \/ HotkeyActive(1)
    \/ HotkeyRead(1)
    \/ CycleLoad(1)
    \/ CycleActive(1)
    \/ EnsureLoad(1)
    \/ EnsureCheck(1)
    \/ EnsureWipe(1)
    \/ EnsureDownload(1)
    \/ EnsureExtract(1)
    \/ EnsureDetect(1)
    \/ EnsureSave(1)
    \/ EnsureLegacy(1)

SpecVis == InitVis /\ [][NextVis]_vars

\* C2: single-visible mode for every transition.  In every state reachable by
\* any mix of show(id), hide(id), cycle(), the toggle_overlay command, the tray
\* toggle (toggle_overlay_sync), the Alt+Space hotkey and reload, run one after
\* the other, no two different slots are marked visible.
C2_SingleVisibleAlways ==
    \A a, b \in CharIds :
        (/\ get_overlay_visible_for_character(overlay_visible, a)
         /\ get_overlay_visible_for_character(overlay_visible, b)) => a = b

----------------------------------------------------------------------------
(* Concurrent commands: each runs as its own task on the async runtime, and   *)
(* the steps of different tasks interleave.                                   *)

\* show_overlay_for_character running in several tasks
NextConc ==
    \/ \E t \in TaskIds, cid \in CharIds : StartShow(t, cid)
    \/ \E t \in TaskIds : ShowHideOther(t)
    \/ \E t \in TaskIds : ShowWindow(t)
    \/ \E t \in TaskIds : ShowSetVisible(t)
    \/ \E t \in TaskIds : ShowSetActive(t)

SpecConc == InitVis /\ [][NextConc]_vars

\* C3: show(id) is atomic with respect to other visibility operations.  For two
\* tasks running show(A) and show(B), A # B, in any interleaving, no state
\* has both A and B marked visible, and once both have returned Ok the slot
\* marked visible is active_character_id.
C3_ShowAtomic ==
    \A t1, t2 \in TaskIds :
        (/\ task[t1].op = "show" /\ task[t2].op = "show"
         /\ task[t1].cid # task[t2].cid)
            => /\ ~(/\ get_overlay_visible_for_character(overlay_visible, task[t1].cid)
                    /\ get_overlay_visible_for_character(overlay_visible, task[t2].cid))
               /\ (task[t1].result = "ok" /\ task[t2].result = "ok")
                    => VisibleSet = {active_character_id}

\* spawn_or_focus_next_character running in several tasks (one per F12 press)
NextCycle ==
    \/ \E t \in TaskIds, cid \in StoreIds : StartSetActive(t, cid)
    \/ \E t \in TaskIds : SetActive(t)
    \/ \E t \in TaskIds : StartCycle(t)
    \/ \E t \in TaskIds : CycleLoad(t)
    \/ \E t \in TaskIds : CycleActive(t)
    \/ \E t \in TaskIds : EnsureLoad(t)
    \/ \E t \in TaskIds : EnsureCheck(t)
    \/ \E t \in TaskIds : EnsureWipe(t)
    \/ \E t \in TaskIds : EnsureDownload(t)
    \/ \E t \in TaskIds : EnsureExtract(t)
    \/ \E t \in TaskIds : EnsureDetect(t)
    \/ \E t \in TaskIds : EnsureSave(t)
    \/ \E t \in TaskIds : EnsureLegacy(t)
    \/ \E t \in TaskIds : ShowHideOther(t)
    \/ \E t \in TaskIds : ShowWindow(t)
    \/ \E t \in TaskIds : ShowSetVisible(t)
    \/ \E t \in TaskIds : ShowSetActive(t)

SpecCycle == InitVis /\ [][NextCycle]_vars

\* the slow path of ensure_model_ready_for_character: wipe, recreate, fetch,
\* extract, normalize
InSlowPath(t) ==
    task[t].pc \in {"er_wipe", "er_download", "er_extract", "er_detect"}

\* C4: cycle() calls are serialized.  Two cycle() calls are never both in the
\* slow path of ensure_ready for the same slot, and when two F12 presses, the
\* second made before the first had changed the active slot, have both
\* returned Ok, the active slot has advanced by two positions.
C4_CycleSerialized ==
    \A t1, t2 \in TaskIds :
        (t1 # t2 /\ task[t1].op = "cycle" /\ task[t2].op = "cycle")
            => /\ ~(/\ InSlowPath(t1) /\ InSlowPath(t2)
                    /\ task[t1].cid = task[t2].cid)
               /\ (/\ task[t1].result = "ok" /\ task[t2].result = "ok"
                   /\ task[t1].pre_active = task[t2].pre_active)
                    => active_character_id =
                          NextId(CHARACTER_IDS,
                                 NextId(CHARACTER_IDS, task[t1].pre_active))

----------------------------------------------------------------------------
(* The settings commands: save_character_slot and get_character_slots *)

\* the slots file when the commands run: written by the setup hook, or a
\* well-formed file left by an earlier run that holds one entry
SlotFiles ==
    {f[1] : f \in SetupFiles} \cup {FileOf(<<e>>) : e \in StoreEntries}

\* the model_url arguments of save_character_slot
SlotUrlArgs == {"", " ", UserUrl, NotZipUrl}

InitSlot ==
    /\ slots_file \in SlotFiles
    /\ legacy_file = [kind |-> "missing", cfg |-> LegacyConfig]
    /\ models = NoModels
    /\ StartState

NextSlot ==
    \/ \E id \in SlotArgs, url \in SlotUrlArgs, en \in BOOLEAN : StartSaveSlot(1, id, url, en)
    \/ SaveSlotLoad(1)
    \/ SaveSlotWrite(1)
    \/ StartGetSlots(1)
    \/ GetSlotsLoad(1)

SpecSlot == InitSlot /\ [][NextSlot]_vars

\* the record of slot `id` in a list that holds one
SlotOf(slots, id) == slots[FindSlot(slots, id)]

\* C11: enablement consistency.  save_slot(id, "http://x/y.zip", false) for a
\* non-primary slot stores the slot with enabled = false, and a load of the
\* file that holds the slot so stored reports it with enabled = false.
C11_DisabledStaysDisabled ==
    \A t \in TaskIds :
        /\ (/\ task[t].op = "save_slot" /\ task[t].result = "ok"
            /\ task[t].cid # PRIMARY_CHARACTER_ID
            /\ task[t].url = UserUrl /\ ~task[t].en)
              => /\ slots_file.kind = "ok"
                 /\ ~SlotOf(slots_file.slots, task[t].cid).enabled
        /\ (/\ task[t].op = "get_slots" /\ task[t].result = "ok"
            /\ task[t].pre_file.kind = "ok"
            /\ FindSlot(task[t].pre_file.slots, "character_2") # 0
            /\ SlotOf(task[t].pre_file.slots, "character_2").model_url = UserUrl
            /\ ~SlotOf(task[t].pre_file.slots, "character_2").enabled)
              => ~SlotOf(task[t].ret_slots, "character_2").enabled

\* C12: in the slots file as a save operation has written it, a slot that is
\* enabled has a model_url that is not blank, whatever slot id, URL and enabled
\* flag save_slot was called with.
C12_EnabledHasUrl ==
    \A t \in TaskIds :
        (task[t].op = "save_slot" /\ task[t].result = "ok")
            => /\ slots_file.kind = "ok"
               /\ \A k \in 1..Len(slots_file.slots) :
                     slots_file.slots[k].enabled
                        => ~IsBlank(slots_file.slots[k].model_url)

\* C13: save_slot(id, url, true) with a url that is empty or only white space
\* returns an error for every slot id, and it returns before the slot store is
\* read or written: the call never reaches its load, and the slots file is what
\* it was when the call began.
C13_EnabledBlankRejected ==
    \A t \in TaskIds :
        (task[t].op = "save_slot" /\ task[t].en /\ IsBlank(task[t].url))
            => /\ task[t].pc = "done"
               /\ task[t].result = "err"
               /\ task[t].slots = <<>>
               /\ slots_file = task[t].pre_file

\* save_slot(character_2, " ", true) was rejected for the missing URL
C13_Witness ==
    \E t \in TaskIds :
        /\ task[t].op = "save_slot" /\ task[t].cid = "character_2"
        /\ task[t].url = " " /\ task[t].en
        /\ task[t].result = "err" /\ task[t].err = "enabled without url"
        /\ slots_file.kind = "ok"

\* C14: the primary slot is always enabled.  After save_slot(character_1, url,
\* enabled) has succeeded, for either enabled input, the primary record in the
\* slots file has enabled = true; after a load has succeeded, the primary record
\* it returns and the one in the slots file have enabled = true.
C14_PrimaryEnabled ==
    \A t \in TaskIds :
        /\ (/\ task[t].op = "save_slot" /\ task[t].result = "ok"
            /\ task[t].cid = PRIMARY_CHARACTER_ID)
              => /\ slots_file.kind = "ok"
                 /\ SlotOf(slots_file.slots, PRIMARY_CHARACTER_ID).enabled
        /\ (task[t].op = "get_slots" /\ task[t].result = "ok")
              => /\ SlotOf(task[t].ret_slots, PRIMARY_CHARACTER_ID).enabled
                 /\ slots_file.kind = "ok"
                 /\ SlotOf(slots_file.slots, PRIMARY_CHARACTER_ID).enabled

\* save_slot(character_1, "http://x/y.zip", false) succeeded on a file that held
\* the primary slot disabled
C14_Witness ==
    \E t \in TaskIds :
        /\ task[t].op = "save_slot" /\ task[t].result = "ok"
        /\ task[t].cid = PRIMARY_CHARACTER_ID
        /\ task[t].url = UserUrl /\ ~task[t].en
        /\ task[t].pre_file.kind = "ok"
        /\ FindSlot(task[t].pre_file.slots, PRIMARY_CHARACTER_ID) # 0
        /\ ~SlotOf(task[t].pre_file.slots, PRIMARY_CHARACTER_ID).enabled
        /\ SlotOf(slots_file.slots, PRIMARY_CHARACTER_ID).enabled

----------------------------------------------------------------------------
(* Claims about the cycle command run on its own *)

\* C15: cycle wraparound.  When spawn_or_focus_next_character has succeeded, its
\* target is the enabled slot at (position(active) + 1) mod n of the enabled ids
\* in slot order, where active is the active id the call found (position 0 when
\* it is not among them); the target is then the active id and the one visible
\* slot.  With the enabled ids [character_1, character_2, character_3] the call
\* goes from character_2 to character_3 and from character_3 to character_1.
C15_CycleWraps ==
    \A t \in TaskIds :
        (task[t].op = "cycle" /\ task[t].result = "ok")
            => LET ordered == task[t].arg
                   n == Len(ordered)
                   active == IF task[t].pre_active = "" THEN PRIMARY_CHARACTER_ID
                             ELSE task[t].pre_active
                   at == {k \in 0..(n - 1) : ordered[k + 1] = active}
                   pos == IF at = {} THEN 0 ELSE CHOOSE k \in at : TRUE
               IN /\ n > 0
                  /\ task[t].cid = ordered[((pos + 1) % n) + 1]
                  /\ active_character_id = task[t].cid
                  /\ VisibleSet = {task[t].cid}
                  /\ ordered = CHARACTER_IDS
                        => /\ active = "character_2" => task[t].cid = "character_3"
                           /\ active = "character_3" => task[t].cid = "character_1"

\* a cycle that began with character_3 active ended with character_1 shown
C15_Witness ==
    \E t \in TaskIds :
        /\ task[t].op = "cycle" /\ task[t].result = "ok"
        /\ task[t].pre_active = "character_3"
        /\ task[t].arg = CHARACTER_IDS
        /\ task[t].cid = "character_1"
        /\ active_character_id = "character_1"
        /\ VisibleSet = {"character_1"}

----------------------------------------------------------------------------
(* Claims about the first steps of ensure_model_ready_for_character *)

\* C16: ensure_ready(slot_id) with a slot_id outside the fixed enumeration fails
\* at once with the invalid-slot error: the call never reaches its load of the
\* slot store, clears no models directory and downloads nothing, and the slots
\* file, the legacy file, the models directories, the visibility map and the
\* active id are what they were when the call began.
C16_UnknownIdRejected ==
    \A t \in TaskIds :
        (task[t].op = "ensure" /\ task[t].cid \notin CharIds)
            => /\ task[t].pc = "done"
               /\ task[t].result = "err" /\ task[t].err = "invalid"
               /\ task[t].slots = <<>>
               /\ task[t].fetched = 0 /\ ~task[t].wiped
               /\ slots_file = task[t].pre_file
               /\ overlay_visible = task[t].pre_visible
               /\ active_character_id = task[t].pre_active

\* ensure_ready(character_9) was rejected while a slots file existed
C16_Witness ==
    \E t \in TaskIds :
        /\ task[t].op = "ensure" /\ task[t].cid = UnknownId
        /\ task[t].result = "err" /\ task[t].err = "invalid"
        /\ slots_file.kind = "ok"
        /\ nops = MaxOps

\* the URL stored for slot id in the file, "" when the file has no such entry
PersistedUrl(file, id) ==
    IF file.kind = "ok" /\ FindSlot(file.slots, id) # 0
    THEN SlotOf(file.slots, id).model_url
    ELSE ""

\* C17: URL resolution in ensure_ready, for a slot in a well-formed slots file,
\* once the load has succeeded.  A slot stored with a URL uses that URL; the
\* primary slot stored with a blank URL uses a built-in default; a non-primary
\* slot stored with a blank URL makes the call fail with the missing-URL error,
\* and nothing is downloaded.
C17_UrlResolution ==
    \A t \in TaskIds :
        (/\ task[t].op = "ensure" /\ task[t].cid \in CharIds
         /\ task[t].pre_file.kind = "ok"
         /\ FindSlot(task[t].pre_file.slots, task[t].cid) # 0
         /\ task[t].pc # "er_load"
         /\ ~(task[t].result = "err" /\ task[t].err = "load"))
            => LET u == PersistedUrl(task[t].pre_file, task[t].cid)
               IN /\ ~IsBlank(u) => task[t].model_url = u
                  /\ (IsBlank(u) /\ task[t].cid = PRIMARY_CHARACTER_ID)
                        => task[t].model_url \in {DEFAULT_MODEL_URL, SLOT_1_MODEL_URL}
                  /\ (IsBlank(u) /\ task[t].cid # PRIMARY_CHARACTER_ID)
                        => /\ task[t].result = "err" /\ task[t].err = "no url"
                           /\ task[t].fetched = 0

----------------------------------------------------------------------------
(* save_character_slot in one task while ensure_model_ready_for_character     *)
(* runs in another: nothing serializes their reads and writes of the slots    *)
(* file.                                                                      *)

InitRace == FreshFiles /\ StartState

NextRace ==
    \/ \E en \in BOOLEAN : StartSaveSlot(1, "character_2", UserUrl, en)
    \/ SaveSlotLoad(1)
    \/ SaveSlotWrite(1)
    \/ \E cid \in {"character_1", "character_3"} : StartEnsure(2, cid)
    \/ EnsureLoad(2)
    \/ EnsureCheck(2)
    \/ EnsureWipe(2)
    \/ EnsureDownload(2)
    \/ EnsureExtract(2)
    \/ EnsureDetect(2)
    \/ EnsureSave(2)
    \/ EnsureLegacy(2)

SpecRace == InitRace /\ [][NextRace]_vars

\* C18: the slot store is not serialized.  When the slow path of ensure_ready(Y)
\* saves its result, the records of the slots other than Y that it writes are
\* those of the list it loaded when it began, whatever the slots file holds at
\* that moment; a save_slot(X) that succeeded in between is thereby undone.
C18_WritesBackSnapshot ==
    [][\A t \in TaskIds :
          (/\ task[t].pc = "er_save" /\ task'[t].pc # "er_save"
           /\ ~(task'[t].result = "err" /\ task'[t].err = "save")
           /\ slots_file'.kind = "ok")
             => \A id \in CharIds \ {task[t].cid} :
                   SlotOf(slots_file'.slots, id) = SlotOf(task[t].slots, id)]_vars

\* the lost update: save_slot(character_2, "http://x/y.zip", ...) and an
\* ensure_ready of another slot have both succeeded, and the slots file does not
\* hold the URL that save_slot wrote
C18_Witness ==
    /\ task[1].op = "save_slot" /\ task[1].result = "ok"
    /\ task[1].cid = "character_2" /\ task[1].url = UserUrl
    /\ task[2].op = "ensure" /\ task[2].result = "ok"
    /\ task[2].cid # task[1].cid
    /\ task[2].fetched > 0
    /\ slots_file.kind = "ok"
    /\ SlotOf(slots_file.slots, "character_2").model_url # UserUrl

----------------------------------------------------------------------------
(* The commands that begin with load_character_slots, one at a time, on a     *)
(* slots file that may not parse                                              *)

\* the slots file is as setup wrote it, or does not parse; the legacy file is
\* there or not
InitLoad ==
    /\ slots_file \in {Malformed,
                       FileOf(migrate_or_default_character_slots(
                                 [kind |-> "missing", cfg |-> LegacyConfig]))}
    /\ legacy_file \in {[kind |-> "missing", cfg |-> LegacyConfig],
                        [kind |-> "ok", cfg |-> LegacyConfig]}
    /\ models = NoModels
    /\ StartState

NextLoad ==
    \/ StartGetSlots(1)
    \/ GetSlotsLoad(1)
    \/ \E en \in BOOLEAN : StartSaveSlot(1, "character_2", UserUrl, en)
    \/ SaveSlotLoad(1)
    \/ SaveSlotWrite(1)
    \/ \E cid \in {"character_1", "character_2"} : StartEnsure(1, cid)
    \/ EnsureLoad(1)
    \/ EnsureCheck(1)
    \/ EnsureWipe(1)
    \/ EnsureDownload(1)
    \/ EnsureExtract(1)
    \/ EnsureDetect(1)
    \/ EnsureSave(1)
    \/ EnsureLegacy(1)
    \/ StartCycle(1)
    \/ CycleLoad(1)
    \/ CycleActive(1)
    \/ ShowHideOther(1)
    \/ ShowWindow(1)
    \/ ShowSetVisible(1)
    \/ ShowSetActive(1)

SpecLoad == InitLoad /\ [][NextLoad]_vars

\* the operations that begin with a load of the slot store
LoadingOps == {"get_slots", "save_slot", "ensure", "cycle"}

\* C19: a slots file that exists and does not parse.  get_slots, save_slot,
\* ensure_ready and cycle called on such a file stop at their load and return
\* an error; nothing is downloaded or cleared, and no defaults or migrated
\* legacy values are returned.  And while the slots file does not parse, no step
\* of these operations changes the slots file, the legacy file, the models
\* directories, the visibility map, the active id or the windows.
C19_MalformedIsHardError ==
    /\ [](\A t \in TaskIds :
            (task[t].op \in LoadingOps /\ task[t].pre_file.kind = "malformed")
               => /\ task[t].pc \in {"gs_load", "ss_load", "er_load", "cy_load", "done"}
                  /\ task[t].pc = "done"
                        => /\ task[t].result = "err" /\ task[t].err = "load"
                           /\ task[t].ret_slots = <<>>
                           /\ task[t].ret_config = None
                  /\ task[t].fetched = 0 /\ ~task[t].wiped
                  /\ slots_file = task[t].pre_file
                  /\ overlay_visible = task[t].pre_visible
                  /\ active_character_id = task[t].pre_active)
    /\ [][slots_file.kind = "malformed"
            => UNCHANGED <<slots_file, legacy_file, models, overlay_visible,
                           active_character_id, windows>>]_vars

\* with a legacy file to migrate from, a cycle has failed at its load of a slots
\* file that does not parse, and the file is still what it was
C19_Witness ==
    /\ slots_file = Malformed
    /\ legacy_file.kind = "ok"
    /\ \E t \in TaskIds :
          /\ task[t].op = "cycle"
          /\ task[t].pre_file = Malformed
          /\ task[t].result = "err" /\ task[t].err = "load"

----------------------------------------------------------------------------
(* Claims about the first load, when there is no slots file *)

\* the all-default record of a slot after the default-URL backfill
BackfilledDefault(slot_id) ==
    [default_with_id(slot_id) EXCEPT !.model_url = slot_default_url(slot_id),
                                     !.enabled = TRUE]

----------------------------------------------------------------------------
(* Claims about the legacy file and the asset fields of the slot records *)

\* C21: the legacy single-slot file is never written.  No step of load,
\* save_slot, change_model or ensure_ready, for any slot including the primary,
\* changes the legacy file or creates it.
C21_LegacyNeverWritten == [][legacy_file' = legacy_file]_vars

\* folder and model_file are both set or both None in every record of the list
BothOrNeither(slots) ==
    \A k \in 1..Len(slots) : IsSome(slots[k].folder) <=> IsSome(slots[k].model_file)

\* C22: in every slot record the operations produce (defaults, migration,
\* save_slot, change_model, ensure_ready), starting from a slots file that is
\* missing or was written by the setup hook, folder and model_file are either
\* both set or both None: in the slots file, in the list a call works on, and
\* in the list it returns.
C22_FolderWithDescriptor ==
    /\ slots_file.kind = "ok" => BothOrNeither(slots_file.slots)
    /\ \A t \in TaskIds :
          BothOrNeither(task[t].slots) /\ BothOrNeither(task[t].ret_slots)

\* ensure_ready(character_2) has recorded the model it downloaded; character_3
\* has none
C22_Witness ==
    /\ slots_file.kind = "ok"
    /\ \E t \in TaskIds :
          /\ task[t].op = "ensure" /\ task[t].cid = "character_2"
          /\ task[t].result = "ok" /\ task[t].fetched > 0
    /\ IsSome(SlotOf(slots_file.slots, "character_2").folder)
    /\ IsSome(SlotOf(slots_file.slots, "character_2").model_file)
    /\ SlotOf(slots_file.slots, "character_3").folder = None
    /\ SlotOf(slots_file.slots, "character_3").model_file = None

\* C23: on a fresh install (no slots file, no legacy file) every slot that load
\* returns, the primary included, has folder = None and model_file = None as
\* long as no normalization has succeeded for it.
C23_NoAssetsBeforeProvisioning ==
    \A t \in TaskIds :
        (/\ task[t].op = "get_slots" /\ task[t].result = "ok"
         /\ task[t].pre_file.kind = "missing"
         /\ legacy_file.kind = "missing"
         /\ models = NoModels)
            => \A k \in 1..Len(task[t].ret_slots) :
                  /\ task[t].ret_slots[k].folder = None
                  /\ task[t].ret_slots[k].model_file = None

----------------------------------------------------------------------------
(* The structure normalizer on archives of other layouts: ensure_ready of a   *)
(* non-primary slot, the download delivering one of these archives.           *)

\* the descriptor two, three and four directories below the subdirectory w
NestedTwo == <<ZipFile(<<"w", "a", "b", "foo.model3.json">>)>>
NestedThree == <<ZipFile(<<"w", "a", "b", "c", "foo.model3.json">>)>>
NestedFour == <<ZipFile(<<"w", "a", "b", "c", "d", "foo.model3.json">>)>>
\* the descriptor at the root beside files and a directory
FlatSiblings ==
    <<ZipFile(<<"foo.model3.json">>), ZipFile(<<"texture_00.png">>),
      ZipFile(<<"icon.png">>), ZipFile(<<"textures", "texture_00.png">>)>>
\* the descriptor at the root beside a directory with the name of its stem
FlatWithFolder ==
    <<ZipFile(<<"foo", "icon.png">>), ZipFile(<<"foo.model3.json">>),
      ZipFile(<<"texture_00.png">>)>>

LayoutPayloads == {NestedTwo, NestedThree, NestedFour, FlatSiblings, FlatWithFolder}

\* a mutant of EnsureDownloadOf: a GET that fails is tried again
EnsureDownloadOf_retrying(t, payloads) ==
    /\ task[t].pc = "er_download"
    /\ \/ task' = [task EXCEPT ![t].fetched = @ + 1]
       \/ \E bytes \in payloads :
             task' = [task EXCEPT ![t] = [@ EXCEPT !.fetched = @ + 1, !.archive = bytes,
                                                   !.pc = "er_extract"]]
    /\ FsUnchanged /\ VisUnchanged
    /\ UNCHANGED <<prev_ready, nops>>

\* reqwest::get(url) and response.bytes(), the response being one of `payloads`
EnsureDownloadOf(t, payloads) ==
    /\ task[t].pc = "er_download"
    /\ \/ task' = [task EXCEPT ![t] = Fail([@ EXCEPT !.fetched = @ + 1], "download")]
       \/ \E bytes \in payloads :
             task' = [task EXCEPT ![t] = [@ EXCEPT !.fetched = @ + 1, !.archive = bytes,
                                                   !.pc = "er_extract"]]
    /\ FsUnchanged /\ VisUnchanged
    /\ UNCHANGED <<prev_ready, nops>>

NextDetect ==
    \/ StartEnsure(1, "character_2")
    \/ EnsureLoad(1)
    \/ EnsureCheck(1)
    \/ EnsureWipe(1)
    \/ EnsureDownloadOf(1, LayoutPayloads)
    \/ EnsureExtract(1)
    \/ EnsureDetect(1)
    \/ EnsureSave(1)

SpecDetect == InitVis /\ [][NextDetect]_vars

\* the call of task t has run detect_model_structure on the extracted archive
Detected(t) ==
    /\ task[t].op = "ensure"
    /\ task[t].pc \in {"er_save", "done"}
    /\ task[t].archive # <<>>
    /\ ~(task[t].result = "err" /\ task[t].err = "extract")

\* C24: nested-layout depth bound.  With no descriptor at the top level of the
\* extraction root, a descriptor in the directory three directory levels below
\* an immediate subdirectory w of the root (w/a/b/c) is found by the
\* normalization, which returns that directory as the folder; a descriptor four
\* levels below (w/a/b/c/d) is not found, and the normalization fails with the
\* no-model error.
C24_DepthBound ==
    \A t \in TaskIds :
        /\ (Detected(t) /\ task[t].archive = NestedThree)
              => /\ ~(task[t].result = "err" /\ task[t].err = "no model")
                 /\ IsSome(task[t].config)
                 /\ Unwrap(task[t].config).folder = <<"w", "a", "b", "c">>
                 /\ Unwrap(task[t].config).model_file = "foo.model3.json"
        /\ (Detected(t) /\ task[t].archive = NestedFour)
              => task[t].result = "err" /\ task[t].err = "no model"

\* the entries of directory d, as a set
Entries(d) == {d[i] : i \in 1..Len(d)}

\* C25: flat-layout normalization.  When the extraction root directly contains
\* the descriptor foo.model3.json and the normalization succeeds, it returns
\* folder "foo" and model_file "foo.model3.json"; afterwards the root contains
\* only the directory foo; every entry that was at the root, the descriptor and
\* its siblings, files or directories, is in root/foo under its own name with
\* its content; and a directory root/foo that was there before is that
\* directory still, with what it held, not an entry of itself.
C25_FlatLayout ==
    [][\A t \in TaskIds :
          LET before == models[task[t].cid].d
              after == models'[task[t].cid].d
              had == EntryIndex(before, "foo")
          IN (/\ task[t].pc = "er_detect" /\ task'[t].pc = "er_save"
              /\ DescriptorFiles(before) # {}
              /\ before[FirstIn(DescriptorFiles(before))].name = "foo.model3.json")
                => /\ Unwrap(task'[t].config).folder = <<"foo">>
                   /\ Unwrap(task'[t].config).model_file = "foo.model3.json"
                   /\ Len(after) = 1
                   /\ after[1].name = "foo" /\ after[1].dir
                   /\ \A e \in Entries(before) :
                         e.name # "foo" => e \in Entries(after[1].kids)
                   /\ had # 0
                         => /\ EntryIndex(after[1].kids, "foo") = 0
                            /\ \A e \in Entries(before[had].kids) :
                                  \E f \in Entries(after[1].kids) : f.name = e.name]_vars

\* the archive with a directory foo beside the descriptor was normalized: the
\* root holds foo alone, and foo holds its own file and the two that were moved
C25_Witness ==
    \E t \in TaskIds :
        /\ task[t].op = "ensure" /\ task[t].result = "ok"
        /\ task[t].archive = FlatWithFolder
        /\ Unwrap(task[t].ret_config).folder = <<"foo">>
        /\ Len(models[task[t].cid].d) = 1
        /\ Entries(models[task[t].cid].d[1].kids) =
              {FileEntry("icon.png"), FileEntry("foo.model3.json"),
               FileEntry("texture_00.png")}

----------------------------------------------------------------------------
(* ensure_model_ready_for_character run to its end: the runtime polls a task  *)
(* that can go on, and every request to the network or the file system comes  *)
(* back with a result or an error.                                            *)

NextLive ==
    \/ StartEnsure(1, PRIMARY_CHARACTER_ID)
    \/ EnsureLoad(1)
    \/ EnsureCheck(1)
    \/ EnsureWipe(1)
    \/ EnsureDownloadOf(1, {ArchiveFlat, ArchiveNoModel, NotAnArchive})
    \/ EnsureExtract(1)
    \/ EnsureDetect(1)
    \/ EnsureSave(1)
    \/ EnsureLegacy(1)

\* the steps of a call that has begun
EnsureSteps ==
    \/ EnsureLoad(1)
    \/ EnsureCheck(1)
    \/ EnsureWipe(1)
    \/ EnsureDownloadOf(1, {ArchiveFlat, ArchiveNoModel, NotAnArchive})
    \/ EnsureExtract(1)
    \/ EnsureDetect(1)
    \/ EnsureSave(1)
    \/ EnsureLegacy(1)

SpecLive == InitVis /\ [][NextLive]_vars /\ WF_vars(EnsureSteps)

\* C26: no automatic retry, and completion.  A call of ensure_ready makes at
\* most one download attempt and clears the models directory at most once; the
\* network and the file system responding, the call eventually returns, with the
\* ready slot or with an error; and once it has returned nothing runs until a
\* new operation is triggered.
C26_OneAttemptThenReturn ==
    /\ [](\A t \in TaskIds : task[t].op = "ensure" => task[t].fetched <= 1)
    /\ [][\A t \in TaskIds :
            /\ (task[t].pc = "er_wipe" /\ task'[t].pc # "er_wipe") => ~task[t].wiped
            /\ (task[t].pc = "er_download" /\ task'[t].pc # "er_download")
                  => task[t].fetched = 0
            /\ (task[t].pc = "done" /\ task'[t] # task[t]) => nops' = nops + 1]_vars
    /\ (task[1].op = "ensure" /\ task[1].pc # "done")
          ~> (task[1].pc = "done" /\ task[1].result \in {"ok", "err"})

\* a call that cleared the directory and whose one download attempt failed has
\* returned the error
C26_Witness ==
    \E t \in TaskIds :
        /\ task[t].op = "ensure" /\ task[t].pc = "done"
        /\ task[t].result = "err" /\ task[t].err = "download"
        /\ task[t].wiped /\ task[t].fetched = 1

----------------------------------------------------------------------------
(* Claims about show, hide and cycle, one operation at a time *)

\* C27: the order and the effect of show(id).  Every other slot has been marked
\* hidden when id is marked visible; a show that began with at most one slot
\* visible never has more than one slot visible while it runs; and when show(id)
\* has returned Ok, id is visible, every other slot is hidden and id is the
\* active slot.
C27_ShowOrder ==
    /\ [][\A t \in TaskIds :
            (task[t].pc = "sh_visible" /\ task'[t].pc # "sh_visible")
               => /\ \A o \in CharIds \ {task[t].cid} :
                        ~get_overlay_visible_for_character(overlay_visible, o)
                  /\ get_overlay_visible_for_character(overlay_visible', task[t].cid)]_vars
    /\ [](\A t \in TaskIds :
            /\ (/\ task[t].pc \in {"sh_hide", "sh_window", "sh_visible", "sh_active"}
                /\ Cardinality({c \in DOMAIN task[t].pre_visible :
                                   task[t].pre_visible[c]}) <= 1)
                  => Cardinality(VisibleSet) <= 1
            /\ (task[t].op = "show" /\ task[t].result = "ok")
                  => /\ VisibleSet = {task[t].cid}
                     /\ active_character_id = task[t].cid)

\* show(character_2) returned Ok after it began with character_1 visible and
\* active
C27_Witness ==
    \E t \in TaskIds :
        /\ task[t].op = "show" /\ task[t].cid = "character_2"
        /\ task[t].result = "ok"
        /\ get_overlay_visible_for_character(task[t].pre_visible, "character_1")
        /\ task[t].pre_active = "character_1"
        /\ VisibleSet = {"character_2"}
        /\ active_character_id = "character_2"


\* C28: hide(id).  Every call hide(id) on one of the three slots that has
\* returned left id marked hidden, whatever its flag was before the call, left
\* active_character_id as it was, and left the flag of every other slot as it
\* was.
C28_HideMarksHidden ==
    \A t \in TaskIds :
        (task[t].op = "hide" /\ task[t].pc = "done" /\ task[t].cid \in CharIds)
           => /\ ~get_overlay_visible_for_character(overlay_visible, task[t].cid)
              /\ active_character_id = task[t].pre_active
              /\ \A o \in CharIds \ {task[t].cid} :
                    get_overlay_visible_for_character(overlay_visible, o)
                       = get_overlay_visible_for_character(task[t].pre_visible, o)


\* the labels of show_overlay_for_character and the errors it returns
ShowLabels == {"sh_hide", "sh_window", "sh_visible", "sh_active"}
ShowErrors == {"create window", "configure", "show"}

\* C29: cycle() calls ensure_ready(target) before show(target).  A cycle() is
\* in show(target), or has returned from it (Ok, or one of show's errors), only
\* after ensure_ready(target) returned Ok(config) to it; while cycle() is in
\* ensure_ready, and when cycle() has returned an error of ensure_ready (or of
\* its own load of the slots), the visible flag of every slot and
\* active_character_id are what they were when cycle() was called.
C29_EnsureBeforeShow ==
    \A t \in TaskIds :
        task[t].op = "cycle" =>
           /\ (\/ task[t].pc \in ShowLabels
               \/ task[t].result = "ok"
               \/ (task[t].result = "err" /\ task[t].err \in ShowErrors))
                 => /\ IsSome(task[t].ret_config)
                    /\ Unwrap(task[t].ret_config).url # ""
           /\ (\/ task[t].pc \in {"cy_load", "cy_active", "er_load", "er_check", "er_wipe",
                                  "er_download", "er_extract", "er_detect", "er_save",
                                  "er_legacy"}
               \/ (task[t].result = "err" /\ task[t].err \notin ShowErrors))
                 => /\ overlay_visible = task[t].pre_visible
                    /\ active_character_id = task[t].pre_active

\* cycle() from the visible character_1: ensure_ready(character_2) wiped the
\* slot's root and failed in the download, cycle() returned that error and
\* character_1 is still the visible and active slot
C29_Witness ==
    /\ task[1].op = "cycle" /\ task[1].cid = "character_2"
    /\ task[1].result = "err" /\ task[1].err = "download" /\ task[1].wiped
    /\ task[1].ret_config = None
    /\ VisibleSet = {PRIMARY_CHARACTER_ID}
    /\ active_character_id = PRIMARY_CHARACTER_ID


----------------------------------------------------------------------------
(* Claims about what a load returns *)

\* C30: load normalization.  When a load of a well-formed slots file has
\* succeeded, every slot it returned is enabled and has a non-blank model_url:
\* the URL of the first entry the file held for the slot when that URL is not
\* blank, and otherwise (a blank URL, or no entry) the slot's own default URL;
\* and the slots file holds the list that was returned.
C30_LoadNormalization ==
    \A t \in TaskIds :
        (task[t].op = "get_slots" /\ task[t].result = "ok" /\ task[t].pre_file.kind = "ok")
           => /\ \A k \in 1..Len(task[t].ret_slots) :
                    LET slot == task[t].ret_slots[k]
                        held == task[t].pre_file.slots
                        j == FindSlot(held, slot.slot_id)
                    IN /\ ~IsBlank(slot.model_url)
                       /\ slot.enabled
                       /\ slot.model_url =
                             IF j # 0 /\ ~IsBlank(held[j].model_url) THEN held[j].model_url
                             ELSE slot_default_url(slot.slot_id)
              /\ slots_file = FileOf(task[t].ret_slots)

\* a load of a file that held character_2 disabled with a blank URL and
\* character_1 with the user's URL: character_2 came back enabled with its own
\* default URL, character_1 with the user's URL
C30_Witness ==
    \E t \in TaskIds :
        /\ task[t].op = "get_slots" /\ task[t].result = "ok"
        /\ task[t].pre_file.kind = "ok" /\ Len(task[t].pre_file.slots) = 2
        /\ task[t].pre_file.slots[1].slot_id = "character_2"
        /\ task[t].pre_file.slots[1].model_url = ""
        /\ ~task[t].pre_file.slots[1].enabled
        /\ task[t].pre_file.slots[2].slot_id = "character_1"
        /\ task[t].pre_file.slots[2].model_url = UserUrl
        /\ task[t].ret_slots[1].model_url = UserUrl
        /\ task[t].ret_slots[2].model_url = SLOT_2_MODEL_URL
        /\ task[t].ret_slots[2].enabled
        /\ slots_file = FileOf(task[t].ret_slots)

----------------------------------------------------------------------------
(* Claims about the defaults the merge step synthesizes *)

\* C31: merge default synthesis.  When a save has succeeded, every fixed
\* identifier its caller's list had no entry for is in the slots file with the
\* synthesized default: disabled for a non-primary slot, enabled with the
\* built-in URL for the primary slot.
C31_DefaultSynthesis ==
    \A t \in TaskIds :
        (task[t].op = "save" /\ task[t].result = "ok")
           => \A k \in 1..Len(CHARACTER_IDS) :
                 FindSlot(task[t].arg, CHARACTER_IDS[k]) = 0
                    => IF CHARACTER_IDS[k] = PRIMARY_CHARACTER_ID
                       THEN /\ slots_file.slots[k].enabled
                            /\ slots_file.slots[k].model_url = SLOT_1_MODEL_URL
                       ELSE ~slots_file.slots[k].enabled

----------------------------------------------------------------------------
(* The structure normalizer on archives with several candidate folders *)

\* archives of one model folder w with its descriptor and subdirectories:
\* "textures" before and after a size-tagged directory, a directory of images
\* before "textures", a directory of images alone, no candidate at all
TexturePayloads ==
    {<<ZipFile(<<"w", "foo.model3.json">>),
       ZipFile(<<"w", "textures", "texture_00.png">>),
       ZipFile(<<"w", "foo.4096", "texture_00.png">>)>>,
     <<ZipFile(<<"w", "foo.model3.json">>),
       ZipFile(<<"w", "foo.4096", "texture_00.png">>),
       ZipFile(<<"w", "textures", "texture_00.png">>)>>,
     <<ZipFile(<<"w", "foo.model3.json">>),
       ZipFile(<<"w", "img", "icon.png">>),
       ZipFile(<<"w", "textures", "texture_00.png">>)>>,
     <<ZipFile(<<"w", "foo.model3.json">>),
       ZipFile(<<"w", "img", "icon.png">>)>>,
     <<ZipFile(<<"w", "foo.model3.json">>),
       ZipFile(<<"w", "motions", "idle.motion3.json">>)>>}

\* archives with descriptors in several places: in the second and the third
\* subdirectory of the root; in a directory and, listed before it, in its
\* subdirectory; in a subdirectory and, listed after it, at the top level;
\* below the depth bound in the first subdirectory and within it in the second
MatchPayloads ==
    {<<ZipFile(<<"u", "icon.png">>),
       ZipFile(<<"v", "foo.model3.json">>),
       ZipFile(<<"w", "bar.model3.json">>)>>,
     <<ZipFile(<<"w", "sub", "bar.model3.json">>),
       ZipFile(<<"w", "foo.model3.json">>)>>,
     <<ZipFile(<<"w", "bar.model3.json">>),
       ZipFile(<<"foo.model3.json">>)>>,
     <<ZipFile(<<"u", "a", "b", "c", "bar.model3.json">>),
       ZipFile(<<"w", "a", "foo.model3.json">>)>>}

NextChoice ==
    \/ StartEnsure(1, "character_2")
    \/ EnsureLoad(1)
    \/ EnsureCheck(1)
    \/ EnsureWipe(1)
    \/ EnsureDownloadOf(1, TexturePayloads \cup MatchPayloads)
    \/ EnsureExtract(1)
    \/ EnsureDetect(1)
    \/ EnsureSave(1)

SpecChoice == InitVis /\ [][NextChoice]_vars

\* name ends with .2048, .4096 or .1024
IsSizeTagName(name) == IsTextureName(name) /\ name # "textures"

\* C32: auxiliary-folder selection by priority.  When the normalization has
\* succeeded, the texture folder it returned is, among the immediate
\* subdirectories of the model folder: one whose name ends with a size tag if
\* there is one, wherever it comes in the directory's iteration order;
\* otherwise the one named "textures" if there is one; otherwise the first one
\* that contains a .png file; and None when there is none of these.
C32_TexturePriority ==
    \A t \in TaskIds :
        (task[t].op = "ensure" /\ task[t].pc = "er_save")
           => LET config == Unwrap(task[t].config)
                  d == DirAt(models[task[t].cid].d, config.folder)
                  tagged == {i \in 1..Len(d) : d[i].dir /\ IsSizeTagName(d[i].name)}
                  literal == {i \in 1..Len(d) : d[i].dir /\ d[i].name = "textures"}
                  withPng == {i \in 1..Len(d) :
                                /\ d[i].dir
                                /\ \E j \in 1..Len(d[i].kids) : IsPngName(d[i].kids[j].name)}
              IN config.texture_folder =
                    IF tagged # {} THEN Some(d[FirstIn(tagged)].name)
                    ELSE IF literal # {} THEN Some("textures")
                    ELSE IF withPng # {} THEN Some(d[FirstIn(withPng)].name)
                    ELSE None

RECURSIVE ContainsDescriptor(_, _)
\* the directory with entries d holds a descriptor file at most n levels down,
\* the directory itself being the first level
ContainsDescriptor(d, n) ==
    /\ n > 0
    /\ \/ \E i \in 1..Len(d) : ~d[i].dir /\ IsDescriptorName(d[i].name)
       \/ \E i \in 1..Len(d) : d[i].dir /\ ContainsDescriptor(d[i].kids, n - 1)

\* C33: first-match policy.  In the step in which the normalization succeeds:
\* when the root holds a descriptor file, the first of them is the model file
\* and the folder is the one named after it, whatever the subdirectories hold;
\* otherwise the folder lies in the first immediate subdirectory of the root
\* (in iteration order) that holds a descriptor within the depth bound, no
\* directory on the way from that subdirectory down to the folder holds a
\* descriptor file itself, every directory on the way is the first
\* subdirectory of its parent that holds a descriptor within the remaining
\* depth, and the model file is the first descriptor file of the folder.
C33_FirstMatch ==
    [][\A t \in TaskIds :
          (task[t].pc = "er_detect" /\ task'[t].pc = "er_save")
             => LET before == models[task[t].cid].d
                    folder == Unwrap(task'[t].config).folder
                    model_file == Unwrap(task'[t].config).model_file
                    Firsts(d, n) ==
                        {i \in 1..Len(d) :
                            /\ d[i].dir /\ ContainsDescriptor(d[i].kids, n)
                            /\ \A j \in 1..(i - 1) :
                                  ~(d[j].dir /\ ContainsDescriptor(d[j].kids, n))}
                IN IF DescriptorFiles(before) # {}
                   THEN /\ model_file = before[FirstIn(DescriptorFiles(before))].name
                        /\ folder = <<Model3Stem[model_file]>>
                   ELSE /\ Len(folder) \in 1..MAX_MODEL_SEARCH_DEPTH
                        /\ \A n \in 1..Len(folder) :
                              LET parent == DirAt(before, SubSeq(folder, 1, n - 1))
                                  here == DirAt(before, SubSeq(folder, 1, n))
                              IN /\ \E i \in Firsts(parent, MAX_MODEL_SEARCH_DEPTH - n + 1) :
                                       parent[i].name = folder[n]
                                 /\ n < Len(folder) => DescriptorFiles(here) = {}
                        /\ LET here == DirAt(before, folder)
                           IN /\ DescriptorFiles(here) # {}
                              /\ model_file = here[FirstIn(DescriptorFiles(here))].name]_vars

\* the archive with u/icon.png, v/foo.model3.json and w/bar.model3.json was
\* normalized: the model is v/foo.model3.json, and w still holds its descriptor
C33_Witness ==
    \E t \in TaskIds :
        /\ task[t].op = "ensure" /\ task[t].result = "ok"
        /\ Unwrap(task[t].ret_config).folder = <<"v">>
        /\ Unwrap(task[t].ret_config).model_file = "foo.model3.json"
        /\ Len(models[task[t].cid].d) = 3
        /\ models[task[t].cid].d[1].name = "u"
        /\ models[task[t].cid].d[3] = DirEntry("w", <<FileEntry("bar.model3.json")>>)

----------------------------------------------------------------------------
(* The commands on a slot that has been provisioned: save_slot, change_model, *)
(* ensure_ready and cycle, one call at a time, from a first run and from the  *)
(* state a successful ensure_ready(character_2) leaves behind.                *)

\* the models directory of character_2 after ArchiveNested was extracted into it
ProvisionedDir ==
    [exists |-> TRUE, d |-> ExtractEntries(<<>>, ArchiveNested, Len(ArchiveNested)).d]

\* the slots file after ensure_ready(character_2) saved what it detected there
ProvisionedFile ==
    LET r == detect_model_structure(ProvisionedDir.d)
    IN FileOf(WithConfig(migrate_or_default_character_slots(
                            [kind |-> "missing", cfg |-> LegacyConfig]),
                         "character_2",
                         ConfigOf(SLOT_2_MODEL_URL, r.folder, r.model_file,
                                  r.texture_folder)))

InitCmd ==
    /\ \/ FreshFiles
       \/ /\ slots_file = ProvisionedFile
          /\ legacy_file = [kind |-> "missing", cfg |-> LegacyConfig]
          /\ models = [NoModels EXCEPT !["character_2"] = ProvisionedDir]
    /\ StartState

NextCmd ==
    \/ \E id \in {"character_2", UnknownId}, url \in UrlArgs, en \in BOOLEAN :
          StartSaveSlot(1, id, url, en)
    \/ \E id \in {"character_2", UnknownId}, url \in UrlArgs : StartChangeModel(1, id, url)
    \/ StartEnsure(1, "character_2")
    \/ StartCycle(1)
    \/ SaveSlotLoad(1)
    \/ SaveSlotWrite(1)
    \/ ChangeModelLoad(1)
    \/ ChangeModelWrite(1)
    \/ CycleLoad(1)
    \/ CycleActive(1)
    \/ EnsureLoad(1)
    \/ EnsureCheck(1)
    \/ EnsureWipe(1)
    \/ EnsureDownload(1)
    \/ EnsureExtract(1)
    \/ EnsureDetect(1)
    \/ EnsureSave(1)
    \/ ShowHideOther(1)
    \/ ShowWindow(1)
    \/ ShowSetVisible(1)
    \/ ShowSetActive(1)

SpecCmd == InitCmd /\ [][NextCmd]_vars

----------------------------------------------------------------------------
(* Claims about the commands' checks of their arguments *)

\* the call of task record r is one the argument checks reject: an unknown
\* slot id, or a URL without the .zip extension (blank allowed by save_slot)
RejectedArgs(r) ==
    \/ r.op \in {"save_slot", "change_model"} /\ r.cid \notin CharIds
    \/ r.op = "save_slot" /\ ~IsBlank(r.url) /\ r.url \notin {UserUrl} \cup
          {SLOT_1_MODEL_URL, SLOT_2_MODEL_URL, SLOT_3_MODEL_URL, DEFAULT_MODEL_URL}
    \/ r.op = "change_model" /\ r.url \notin {UserUrl} \cup
          {SLOT_1_MODEL_URL, SLOT_2_MODEL_URL, SLOT_3_MODEL_URL, DEFAULT_MODEL_URL}

\* C34: archive-URL validation.  A save_slot whose URL is not blank and does
\* not end in ".zip", a change_model whose URL does not end in ".zip", and
\* either with an unknown slot id, has returned an error as soon as it was
\* called: it is never at a load or a write, the step that calls it leaves the
\* slots file, the legacy file, the models directories and the visibility
\* state as they were, and it downloads and wipes nothing.
C34_RejectedBeforeLoad ==
    /\ [](\A t \in TaskIds :
            RejectedArgs(task[t])
               => /\ task[t].pc = "done" /\ task[t].result = "err"
                  /\ task[t].err \in {"invalid", "not a zip", "enabled without url"}
                  /\ slots_file = task[t].pre_file
                  /\ overlay_visible = task[t].pre_visible
                  /\ active_character_id = task[t].pre_active
                  /\ task[t].fetched = 0 /\ ~task[t].wiped)
    /\ [][\A t \in TaskIds :
            (RejectedArgs(task'[t]) /\ task'[t] # task[t])
               => /\ <<slots_file', legacy_file', models'>>
                        = <<slots_file, legacy_file, models>>
                  /\ <<overlay_visible', active_character_id', windows'>>
                        = <<overlay_visible, active_character_id, windows>>]_vars

\* change_model(character_2, a URL ending in .txt) was rejected on a slot
\* that is provisioned: the record and the files are kept
C34_Witness ==
    \E t \in TaskIds :
        /\ task[t].op = "change_model" /\ task[t].cid = "character_2"
        /\ task[t].url = NotZipUrl
        /\ task[t].result = "err" /\ task[t].err = "not a zip"
        /\ slots_file.kind = "ok"
        /\ IsSome(slots_file.slots[2].model_file)
        /\ models["character_2"].exists

----------------------------------------------------------------------------
(* Claims about cycle(), change_model and save_slot on a provisioned slot *)

NewUrlNoAssets(t) ==
    /\ slots_file.kind = "ok"
    /\ LET slot == SlotOf(slots_file.slots, task[t].cid)
       IN /\ slot.model_url = task[t].url /\ slot.enabled
          /\ slot.folder = None /\ slot.model_file = None /\ slot.texture_folder = None

\* the models directory of the call's slot holds nothing but what the call
\* has extracted into it
RootHoldsOnlyNew(t) ==
    LET a == task[t].archive
    IN models[task[t].cid].d \in
          IF a = <<>> \/ a = NotAnArchive THEN {<<>>}
          ELSE {e.d : e \in ExtractOutcomes(<<>>, a)}

----------------------------------------------------------------------------
(* Claims about a show that fails *)

\* C37: show(id) is not failure-atomic.  When a show of id has failed in
\* creating, configuring or displaying the window of id, every other slot is
\* marked hidden, the visible flag of id is what it was before the call (the
\* call has not set it), and active_character_id is what it was before the
\* call.
C37_ShowNotAtomic ==
    \A t \in TaskIds :
        (task[t].result = "err" /\ task[t].err \in ShowErrors)
           => /\ \A o \in CharIds \ {task[t].cid} :
                    ~get_overlay_visible_for_character(overlay_visible, o)
              /\ get_overlay_visible_for_character(overlay_visible, task[t].cid)
                    = get_overlay_visible_for_character(task[t].pre_visible, task[t].cid)
              /\ active_character_id = task[t].pre_active

\* show(character_3) failed while character_1 was visible and character_2
\* active: no slot is visible, and character_2 is still the active one
C37_Witness ==
    \E t \in TaskIds :
        /\ task[t].op = "show" /\ task[t].cid = "character_3"
        /\ task[t].result = "err" /\ task[t].err \in ShowErrors
        /\ get_overlay_visible_for_character(task[t].pre_visible, PRIMARY_CHARACTER_ID)
        /\ task[t].pre_active = "character_2"
        /\ VisibleSet = {}
        /\ active_character_id = "character_2"

----------------------------------------------------------------------------
(* Two loads, one after the other: the second caller's load runs on the file *)
(* the first caller's load has written.                                       *)

NextTwice ==
    \/ StartGetSlots(1)
    \/ GetSlotsLoad(1)
    \/ StartGetSlots(2)
    \/ GetSlotsLoad(2)

SpecTwice == InitStore /\ [][NextTwice]_vars

\* C38: load() is idempotent.  Starting from any well-formed slots file or
\* none, when a load has succeeded and the next step on the slots file is
\* another load that succeeds, the second load returns the list the first
\* returned and leaves in the slots file exactly what the first wrote.
C38_LoadIdempotent ==
    [][\A t, u \in TaskIds :
          (/\ t # u
           /\ task[t].op = "get_slots" /\ task[t].result = "ok"
           /\ task'[t] = task[t]
           /\ task[u].pc = "gs_load"
           /\ task'[u].pc = "done" /\ task'[u].result = "ok")
             => /\ task'[u].ret_slots = task[t].ret_slots
                /\ slots_file' = slots_file
                /\ slots_file' = FileOf(task[t].ret_slots)]_vars

\* without a slots file and with a legacy file, the first load returned the
\* migrated list and the second returned the same list from the file
C38_Witness ==
    /\ task[1].op = "get_slots" /\ task[1].result = "ok"
    /\ task[1].pre_file = Missing
    /\ task[2].op = "get_slots" /\ task[2].result = "ok"
    /\ task[2].pre_file = FileOf(task[1].ret_slots)
    /\ legacy_file.kind = "ok"
    /\ task[1].ret_slots[1].model_url = LegacyConfig.url
    /\ task[2].ret_slots = task[1].ret_slots
    /\ slots_file = FileOf(task[1].ret_slots)

----------------------------------------------------------------------------
(* Claims about a slot that was disabled *)

\* the call of task t is an ensure_ready of a non-primary slot (called
\* directly or by cycle) that began on a slots file holding the slot disabled
OnDisabledSlot(t) ==
    /\ task[t].op \in {"ensure", "cycle"}
    /\ task[t].cid \in CharIds \ {PRIMARY_CHARACTER_ID}
    /\ task[t].pre_file.kind = "ok"
    /\ FindSlot(task[t].pre_file.slots, task[t].cid) # 0
    /\ ~SlotOf(task[t].pre_file.slots, task[t].cid).enabled

\* C39: disabling forces re-provisioning.  A save_slot(id, url, false) for a
\* non-primary slot that has succeeded leaves the slot in the slots file
\* disabled and without folder, model_file and texture_folder.  The next
\* ensure_ready(id), called directly or by cycle(), does not take the fast
\* path, whatever the private root holds: its check of the recorded model is
\* followed by the clearing of the root, the download is made only after the
\* clearing, and it returns Ok (and cycle goes on to show) only after it has
\* cleared the root and downloaded the archive once.
C39_DisableReprovisions ==
    /\ [](\A t \in TaskIds :
            /\ (/\ task[t].op = "save_slot" /\ task[t].result = "ok" /\ ~task[t].en
                /\ task[t].cid # PRIMARY_CHARACTER_ID)
                  => /\ slots_file.kind = "ok"
                     /\ LET slot == SlotOf(slots_file.slots, task[t].cid)
                        IN /\ ~slot.enabled
                           /\ slot.folder = None /\ slot.model_file = None
                           /\ slot.texture_folder = None
            /\ OnDisabledSlot(t)
                  => /\ task[t].pc \in {"er_download", "er_extract", "er_detect", "er_save"}
                           => task[t].wiped
                     /\ (\/ task[t].pc \in {"er_extract", "er_detect", "er_save"}
                         \/ task[t].pc \in ShowLabels
                         \/ task[t].result = "ok"
                         \/ IsSome(task[t].ret_config))
                           => task[t].wiped /\ task[t].fetched = 1)
    /\ [][\A t \in TaskIds :
            (OnDisabledSlot(t) /\ task[t].pc = "er_check" /\ task'[t].pc # "er_check")
               => task'[t].pc = "er_wipe"]_vars

\* after save_slot had disabled the provisioned character_2, ensure_ready is
\* about to clear its root although every file of the model is still there
C39_Witness ==
    \E t \in TaskIds :
        /\ OnDisabledSlot(t) /\ task[t].cid = "character_2"
        /\ task[t].pc = "er_wipe"
        /\ models["character_2"] = ProvisionedDir
        /\ PathExists(models["character_2"].d, <<"Hiyori", "Hiyori.model3.json">>)

============================================================================
